---------------------------- MODULE Spec2Model ----------------------------
(***************************************************************************)
(* Omakase (Joeltronics/Omakase): the recursive move solver, the move      *)
(* enumerator, the minimal-state transition and the result ranking,        *)
(* translated from the Python sources.                                     *)
(*                                                                         *)
(* Cards are the integers of the IntEnum Card.  A Pick is the tuple        *)
(* Pick.as_tuple(): <<a>> or <<a, b>>.  A Plate is a record of the         *)
(* dataclass fields.  An operation that can raise returns a record with a  *)
(* field err ("ok", "ValueError", "AssertionError").                       *)
(***************************************************************************)
EXTENDS Integers, Sequences, FiniteSets, TLC

VARIABLES
    hand,     \* get_all_picks: hand
    plate,    \* get_all_picks: plate
    prune_likely_bad_picks, \* get_all_picks: prune_likely_bad_picks
    options,  \* get_all_picks: what the call returned
    rank_input,  \* rank_players: players
    rank_output,    \* rank_players: what the call returned
    solve_input,         \* solve_recursive: player_state (a PlayerState)
    solve_type,   \* solve_recursive: consolidation_type
    solve_output,                  \* solve_recursive: what the call returned
    turn_output,  \* PlayerState.play_turn of the returned Pick: how it ended, and the state after
    parent_state, \* a _MinimalPlayerState: the receiver of copy_with_played_cards
    child_state,    \* what copy_with_played_cards returned
    leaf_output,               \* what _solve_recursive / play_last_cards_and_score returned
    score_input,      \* score_maki / score_puddings: the count of every player
    maki_output,      \* what score_maki returned
    pudding_output,   \* what score_puddings returned
    odds_input,       \* the arguments of num_cards_odds_list / num_cards_odds_at_least
    odds_list_output,      \* what num_cards_odds_list returned
    odds_at_least_output,  \* what num_cards_odds_at_least returned
    fold_output,      \* one own candidate Pick of _solve_recursive and its ConsolidatedResults
    node_output,      \* _solve_recursive on one node: its arguments and what it returned
    compare_input,    \* is_better_than: self, other, last_round, consolidation_type
    compare_output,   \* what is_better_than returned
    prune_output,     \* solve_recursive: the arguments it gives _solve_recursive
    walk_root,    \* the search walked: the root _MinimalPlayerState and prune_my_bad_picks
    walk_picks,    \* the picks of the transitions from the root to the node, one tuple per transition
    walk_state,    \* the node: the _MinimalPlayerState copy_with_played_cards returned
    walk_result,    \* what _solve_recursive returned at the node
    know_state,    \* a PlayerState through a game: how its last call ended, and the PlayerState after it
    know_hands,    \* the hands the players hold, by seat
    know_deck,    \* the cards left in the deck
    know_phase,    \* what was called last: dealt, played, passed
    check_kinds,    \* the kinds of card of one game
    check_history,    \* play_history: the Picks played on the Plate, in order
    check_plate,    \* Plate.play: how the last call ended, and the Plate after it
    expect_input,    \* end_of_round_score_puddings: the PlayerState of the scorer, and num_puddings
    expect_output,    \* what end_of_round_score_puddings returned
    pair_input,    \* two cards a and b, and the unused Wasabi of a plate
    pair_output    \* Pick(a, b) and Pick(b, a), whether they are equal, and order_matters

vars == <<hand, plate, prune_likely_bad_picks, options, rank_input, rank_output, solve_input,
          solve_type, solve_output, turn_output, parent_state, child_state, leaf_output,
          score_input, maki_output, pudding_output,
          odds_input, odds_list_output, odds_at_least_output,
          fold_output, node_output, compare_input, compare_output,
          prune_output,
          walk_root, walk_picks, walk_state, walk_result,
          know_state, know_hands, know_deck, know_phase,
          check_kinds, check_history, check_plate,
          expect_input, expect_output,
          pair_input, pair_output>>

picks_vars == <<hand, plate, prune_likely_bad_picks, options>>

rank_vars == <<rank_input, rank_output>>

solve_vars == <<solve_input, solve_type, solve_output, turn_output, parent_state,
                child_state, leaf_output>>

score_vars == <<score_input, maki_output, pudding_output>>

odds_vars == <<odds_input, odds_list_output, odds_at_least_output>>

search_vars == <<fold_output, node_output>>

compare_vars == <<compare_input, compare_output>>

prune_vars == <<prune_output>>

walk_vars == <<walk_root, walk_picks, walk_state, walk_result>>

know_vars == <<know_state, know_hands, know_deck, know_phase>>

plate_vars == <<check_kinds, check_history, check_plate>>

expect_vars == <<expect_input, expect_output>>

pair_vars == <<pair_input, pair_output>>

more_vars == <<prune_vars, walk_vars, know_vars, plate_vars, expect_vars, pair_vars>>

----------------------------------------------------------------------------
(* cards.py: Card *)

Sashimi == 1
Tempura == 2
Dumpling == 3
SquidNigiri == 4
SalmonNigiri == 5
EggNigiri == 6
Wasabi == 7
Maki3 == 8
Maki2 == 9
Maki1 == 10
Pudding == 11
Chopsticks == 12
Unknown == 99

Cards == Sashimi..Chopsticks

is_maki(card) == card \in {Maki1, Maki2, Maki3}

is_nigiri(card) == card \in {EggNigiri, SalmonNigiri, SquidNigiri}

num_maki(card) ==
    IF card = Maki1 THEN 1
    ELSE IF card = Maki2 THEN 2
    ELSE IF card = Maki3 THEN 3
    ELSE 0

nigiri_base_points(card) ==
    IF card = EggNigiri THEN 1
    ELSE IF card = SalmonNigiri THEN 2
    ELSE 3

----------------------------------------------------------------------------
(* cards.py: Pick *)

_order_may_matter(a, b) ==
    /\ a # b
    /\ \/ is_nigiri(a) /\ is_nigiri(b)
       \/ a = Wasabi /\ is_nigiri(b)
       \/ b = Wasabi /\ is_nigiri(a)

\* Pick(a): one card
Pick1(a) == <<a>>

\* Pick(a, b): sorted unless the order may matter
Pick2(a, b) ==
    IF ~_order_may_matter(a, b)
    THEN (IF a <= b THEN <<a, b>> ELSE <<b, a>>)
    ELSE <<a, b>>

\* Pick.as_pair(): <<a, b>>, b the card 0 for None
Pick_as_pair(pick) == IF Len(pick) = 1 THEN <<pick[1], 0>> ELSE <<pick[1], pick[2]>>

\* Pick.order_matters(num_unused_wasabi): [err, ret]
Pick_order_matters(pick, num_unused_wasabi) ==
    IF num_unused_wasabi < 0 THEN [err |-> "ValueError", ret |-> FALSE]
    ELSE IF Len(pick) = 1 \/ pick[1] = pick[2] THEN [err |-> "ok", ret |-> FALSE]
    ELSE IF num_unused_wasabi = 0
    THEN [err |-> "ok",
          ret |-> \/ pick[1] = Wasabi /\ is_nigiri(pick[2])
                  \/ pick[2] = Wasabi /\ is_nigiri(pick[1])]
    ELSE IF num_unused_wasabi = 1
    THEN [err |-> "ok", ret |-> is_nigiri(pick[1]) /\ is_nigiri(pick[2])]
    ELSE [err |-> "ok", ret |-> FALSE]

\* Pick.__eq__ on two Picks
Pick_eq(self, other) == Pick_as_pair(self) = Pick_as_pair(other)

\* Pick.__hash__: the hash of the card, or of the tuple as_pair(); hash() of a tuple
\* is a function of its items
Pick_hash(pick) ==
    IF Len(pick) = 1 THEN [of |-> "Card", items |-> <<pick[1]>>]
    ELSE [of |-> "tuple", items |-> Pick_as_pair(pick)]

----------------------------------------------------------------------------
(* cards.py: Plate *)

EmptyPlate ==
    [score |-> 0, maki |-> 0, chopsticks |-> 0, unused_wasabi |-> 0,
     unscored_sashimi |-> 0, unscored_tempura |-> FALSE, dumplings |-> 0]

\* Plate.add(card); an invalid card (Card.Unknown) raises ValueError
PlateAddValid(card) == card \in Cards

Plate_add(plt, card) ==
    IF card = Chopsticks THEN [plt EXCEPT !.chopsticks = @ + 1]
    ELSE IF card = Wasabi THEN [plt EXCEPT !.unused_wasabi = @ + 1]
    ELSE IF card = Sashimi THEN
        (IF plt.unscored_sashimi = 2
         THEN [plt EXCEPT !.score = @ + 10, !.unscored_sashimi = 0]
         ELSE [plt EXCEPT !.unscored_sashimi = @ + 1])
    ELSE IF card = Tempura THEN
        [plt EXCEPT !.score = IF plt.unscored_tempura THEN @ + 5 ELSE @,
                    !.unscored_tempura = ~@]
    ELSE IF card = Dumpling THEN
        (IF plt.dumplings >= 5 THEN plt
         ELSE [plt EXCEPT !.score = @ + 1 + plt.dumplings, !.dumplings = @ + 1])
    ELSE IF is_nigiri(card) THEN
        (IF plt.unused_wasabi # 0
         THEN [plt EXCEPT !.unused_wasabi = @ - 1, !.score = @ + 3 * nigiri_base_points(card)]
         ELSE [plt EXCEPT !.score = @ + nigiri_base_points(card)])
    ELSE IF is_maki(card) THEN [plt EXCEPT !.maki = @ + num_maki(card)]
    ELSE plt  \* Pudding: ignored

\* Plate.play(pick): [err, plate]
Plate_play(plt, pick) ==
    IF Len(pick) = 2 /\ plt.chopsticks = 0
    THEN [err |-> "ValueError", plate |-> plt]
    ELSE LET p0 == IF Len(pick) = 2 THEN [plt EXCEPT !.chopsticks = @ - 1] ELSE plt
             p1 == Plate_add(p0, pick[1])
         IN  IF ~PlateAddValid(pick[1]) THEN [err |-> "ValueError", plate |-> p0]
             ELSE IF Len(pick) = 1 THEN [err |-> "ok", plate |-> p1]
             ELSE IF ~PlateAddValid(pick[2]) THEN [err |-> "ValueError", plate |-> p1]
             ELSE [err |-> "ok", plate |-> Plate_add(p1, pick[2])]

----------------------------------------------------------------------------
(* utils.py *)

Range(s) == {s[i] : i \in DOMAIN s}

count_card(cards, card) == Cardinality({i \in DOMAIN cards : cards[i] = card})

\* list.remove(x) leaving the list as it is
ListRemove_none(list, x) == list

\* list.remove(x): the list without the first occurrence of x (x is in the list)
ListRemove(list, x) ==
    LET k == CHOOSE i \in DOMAIN list :
                 /\ list[i] = x
                 /\ \A j \in 1..(i - 1) : list[j] # x
    IN  [i \in 1..(Len(list) - 1) |-> IF i < k THEN list[i] ELSE list[i + 1]]

\* _prune_likely_bad_picks without the Maki
_prune_likely_bad_picks_nigiri_only(opts) ==
    IF SquidNigiri \in opts THEN opts \ {SalmonNigiri, EggNigiri}
    ELSE IF SalmonNigiri \in opts THEN opts \ {EggNigiri}
    ELSE opts

_prune_likely_bad_picks(opts) ==
    LET nig == IF SquidNigiri \in opts THEN opts \ {SalmonNigiri, EggNigiri}
               ELSE IF SalmonNigiri \in opts THEN opts \ {EggNigiri}
               ELSE opts
    IN  IF Maki3 \in nig THEN nig \ {Maki2, Maki1}
        ELSE IF Maki2 \in nig THEN nig \ {Maki1}
        ELSE nig

get_chopstick_picks(hnd, num_unused_wasabi, prune) ==
    LET num_chopsticks_in_hand == count_card(hnd, Chopsticks)
        card_options == SelectSeq(hnd, LAMBDA c : c # Chopsticks)
        combos == {Pick2(card_options[p[1]], card_options[p[2]]) :
                      p \in {q \in (DOMAIN card_options) \X (DOMAIN card_options) : q[1] < q[2]}}
        first_card_options == _prune_likely_bad_picks(Range(card_options))
        second_card_choices(first) ==
            _prune_likely_bad_picks(Range(ListRemove(card_options, first)))
        pruned == UNION {{Pick2(IF f <= s THEN f ELSE s, IF f <= s THEN s ELSE f) :
                             s \in second_card_choices(f)} : f \in first_card_options}
        choices == IF ~prune THEN combos ELSE pruned
        swap_nigiri == IF num_unused_wasabi = 1
                       THEN {Pick2(c[2], c[1]) : c \in {d \in choices :
                                d[1] # d[2] /\ is_nigiri(d[1]) /\ is_nigiri(d[2])}}
                       ELSE {}
        swap_wasabi == IF num_unused_wasabi = 0
                       THEN {Pick2(c[2], c[1]) : c \in {d \in choices :
                                /\ d[1] # d[2]
                                /\ \/ d[1] = Wasabi /\ is_nigiri(d[2])
                                   \/ is_nigiri(d[1]) /\ d[2] = Wasabi}}
                       ELSE {}
        swapped_choices == IF num_unused_wasabi <= 1 THEN swap_nigiri \cup swap_wasabi ELSE {}
    IN  IF Len(card_options) < 2
        THEN (IF num_chopsticks_in_hand >= 2 THEN {Pick2(Chopsticks, Chopsticks)} ELSE {})
        ELSE choices \cup swapped_choices
               \cup (IF num_chopsticks_in_hand >= 2 THEN {Pick2(Chopsticks, Chopsticks)} ELSE {})

\* get_all_picks without the test of plate.chopsticks
get_all_picks_any_plate(hnd, plt, prune) ==
    LET can_use_chopsticks == Len(hnd) > 1
        cards_in_hand == Range(hnd)
        without_chopsticks ==
            IF Len(hnd) <= 1 + plt.chopsticks /\ Cardinality(cards_in_hand) > 1
            THEN cards_in_hand \ {Chopsticks}
            ELSE cards_in_hand
        singles ==
            IF prune
            THEN (IF can_use_chopsticks /\ Len(hnd) <= 1 + plt.chopsticks
                     /\ Chopsticks \notin cards_in_hand
                  THEN {}
                  ELSE {Pick1(c) : c \in _prune_likely_bad_picks(without_chopsticks)})
            ELSE {Pick1(c) : c \in cards_in_hand}
        opts == IF can_use_chopsticks
                THEN singles \cup get_chopstick_picks(hnd, plt.unused_wasabi, prune)
                ELSE singles
    IN  IF opts = {} THEN [err |-> "AssertionError", picks |-> {}]
        ELSE [err |-> "ok", picks |-> opts]

\* get_all_picks without the final "assert options"
get_all_picks_no_assert(hnd, plt, prune) ==
    LET can_use_chopsticks == plt.chopsticks # 0 /\ Len(hnd) > 1
        cards_in_hand == Range(hnd)
        without_chopsticks ==
            IF Len(hnd) <= 1 + plt.chopsticks /\ Cardinality(cards_in_hand) > 1
            THEN cards_in_hand \ {Chopsticks}
            ELSE cards_in_hand
        singles ==
            IF prune
            THEN (IF can_use_chopsticks /\ Len(hnd) <= 1 + plt.chopsticks
                     /\ Chopsticks \notin cards_in_hand
                  THEN {}
                  ELSE {Pick1(c) : c \in _prune_likely_bad_picks(without_chopsticks)})
            ELSE {Pick1(c) : c \in cards_in_hand}
        opts == IF can_use_chopsticks
                THEN singles \cup get_chopstick_picks(hnd, plt.unused_wasabi, prune)
                ELSE singles
    IN  [err |-> "ok", picks |-> opts]

get_all_picks(hnd, plt, prune) ==
    LET can_use_chopsticks == plt.chopsticks # 0 /\ Len(hnd) > 1
        cards_in_hand == Range(hnd)
        without_chopsticks ==
            IF Len(hnd) <= 1 + plt.chopsticks /\ Cardinality(cards_in_hand) > 1
            THEN cards_in_hand \ {Chopsticks}
            ELSE cards_in_hand
        singles ==
            IF prune
            THEN (IF can_use_chopsticks /\ Len(hnd) <= 1 + plt.chopsticks
                     /\ Chopsticks \notin cards_in_hand
                  THEN {}
                  ELSE {Pick1(c) : c \in _prune_likely_bad_picks(without_chopsticks)})
            ELSE {Pick1(c) : c \in cards_in_hand}
        opts == IF can_use_chopsticks
                THEN singles \cup get_chopstick_picks(hnd, plt.unused_wasabi, prune)
                ELSE singles
    IN  IF opts = {} THEN [err |-> "AssertionError", picks |-> {}]
        ELSE [err |-> "ok", picks |-> opts]

----------------------------------------------------------------------------
(* scoring.py *)

score_tempura(cards) == 5 * (count_card(cards, Tempura) \div 2)

score_sashimi(cards) == 10 * (count_card(cards, Sashimi) \div 3)

count_maki(cards) ==
    count_card(cards, Maki1) + 2 * count_card(cards, Maki2) + 3 * count_card(cards, Maki3)

\* score_dumplings that counts every Dumpling
score_dumplings_uncapped(cards) ==
    LET num_dumpling == count_card(cards, Dumpling)
    IN  (num_dumpling * (num_dumpling + 1)) \div 2

score_dumplings(cards) ==
    LET num_dumpling == IF count_card(cards, Dumpling) < 5 THEN count_card(cards, Dumpling) ELSE 5
    IN  <<0, 1, 3, 6, 10, 15>>[num_dumpling + 1]

\* the loop of score_nigiri from the k-th card on
RECURSIVE ScoreNigiriFrom(_, _, _, _)
ScoreNigiriFrom(cards, k, num_wasabi, score) ==
    IF k > Len(cards) THEN score
    ELSE IF cards[k] = Wasabi THEN ScoreNigiriFrom(cards, k + 1, num_wasabi + 1, score)
    ELSE IF is_nigiri(cards[k])
    THEN (IF num_wasabi > 0
          THEN ScoreNigiriFrom(cards, k + 1, num_wasabi - 1,
                               score + 3 * nigiri_base_points(cards[k]))
          ELSE ScoreNigiriFrom(cards, k + 1, num_wasabi, score + nigiri_base_points(cards[k])))
    ELSE ScoreNigiriFrom(cards, k + 1, num_wasabi, score)

score_nigiri(cards) == ScoreNigiriFrom(cards, 1, 0, 0)

score_plate_besides_maki_pudding(cards) ==
    score_tempura(cards) + score_sashimi(cards) + score_nigiri(cards) + score_dumplings(cards)

\* the loop of _check_plate over play_history from the k-th Pick on: [err, cards]
RECURSIVE ReconstructPlate(_, _, _)
ReconstructPlate(play_history, k, reconstructed_plate) ==
    IF k > Len(play_history) THEN [err |-> "ok", cards |-> reconstructed_plate]
    ELSE IF Len(play_history[k]) = 2 /\ Chopsticks \notin Range(reconstructed_plate)
    THEN [err |-> "ValueError", cards |-> reconstructed_plate]
    ELSE ReconstructPlate(play_history, k + 1,
                          (IF Len(play_history[k]) = 2
                           THEN ListRemove(reconstructed_plate, Chopsticks)
                           ELSE reconstructed_plate) \o play_history[k])

\* _check_plate on a play_history and the Plate it was played on: how it ends
_check_plate(play_history, plt) ==
    LET checked(r) ==
            IF r.err # "ok" THEN r.err
            ELSE IF score_plate_besides_maki_pudding(r.cards) # plt.score THEN "AssertionError"
            ELSE IF count_maki(r.cards) # plt.maki THEN "AssertionError"
            ELSE "ok"
    IN  checked(ReconstructPlate(play_history, 1, <<>>))

SetMax(S) == CHOOSE x \in S : \A y \in S : y <= x

SetMin(S) == CHOOSE x \in S : \A y \in S : x <= y

\* _count_maki_plates paying the 6 points in full to every player with the most Maki
_count_maki_plates_no_split(nums_maki) ==
    LET idx == DOMAIN nums_maki
        max_maki_count == SetMax(Range(nums_maki))
        top == CHOOSE i \in idx : nums_maki[i] = max_maki_count
        second_maki_count == SetMax({nums_maki[i] : i \in idx \ {top}})
        num_players_max_maki_count == Cardinality({i \in idx : nums_maki[i] = max_maki_count})
        num_players_second_maki_count == Cardinality({i \in idx : nums_maki[i] = second_maki_count})
    IN  IF max_maki_count = 0 THEN <<0, 0, 0, 0>>
        ELSE <<max_maki_count,
               6,
               second_maki_count,
               IF num_players_max_maki_count > 1 \/ second_maki_count = 0 THEN 0
               ELSE 3 \div num_players_second_maki_count>>

\* <<max_maki_count, points_most_maki, second_maki_count,
\* points_second_most_maki>>; nums_maki has at least 2 entries
_count_maki_plates(nums_maki) ==
    LET idx == DOMAIN nums_maki
        max_maki_count == SetMax(Range(nums_maki))
        \* sorted(nums_maki, reverse=True)[1]
        top == CHOOSE i \in idx : nums_maki[i] = max_maki_count
        second_maki_count == SetMax({nums_maki[i] : i \in idx \ {top}})
        num_players_max_maki_count == Cardinality({i \in idx : nums_maki[i] = max_maki_count})
        num_players_second_maki_count == Cardinality({i \in idx : nums_maki[i] = second_maki_count})
    IN  IF max_maki_count = 0 THEN <<0, 0, 0, 0>>
        ELSE <<max_maki_count,
               6 \div num_players_max_maki_count,
               second_maki_count,
               IF num_players_max_maki_count > 1 \/ second_maki_count = 0 THEN 0
               ELSE 3 \div num_players_second_maki_count>>

score_maki(nums_maki) ==
    LET c == _count_maki_plates(nums_maki)
    IN  [i \in DOMAIN nums_maki |->
            IF nums_maki[i] = c[1] THEN c[2]
            ELSE IF nums_maki[i] = c[3] THEN c[4]
            ELSE 0]

\* score_plates on a sequence of Plates
score_plates(plates) ==
    LET maki_scores == score_maki([i \in DOMAIN plates |-> plates[i].maki])
    IN  [i \in DOMAIN plates |-> plates[i].score + maki_scores[i]]

\* points are rationals <<numerator, denominator>>, because the code
\* divides with "/" (true division)
_count_pudding(nums_pudding) ==
    LET num_players == Len(nums_pudding)
        max_pudding_count == SetMax(Range(nums_pudding))
        min_pudding_count == SetMin(Range(nums_pudding))
        num_players_max_count == Cardinality({i \in DOMAIN nums_pudding : nums_pudding[i] = max_pudding_count})
        num_players_min_count == Cardinality({i \in DOMAIN nums_pudding : nums_pudding[i] = min_pudding_count})
    IN  IF max_pudding_count = min_pudding_count
        THEN <<max_pudding_count,
               IF max_pudding_count > 0 /\ num_players = 2 THEN <<3, 1>> ELSE <<0, 1>>,
               min_pudding_count,
               <<0, 1>>>>
        ELSE <<max_pudding_count,
               <<6, num_players_max_count>>,
               min_pudding_count,
               IF num_players = 2 THEN <<0, 1>> ELSE <<6, num_players_min_count>>>>

\* score_puddings: a rational <<numerator, denominator>> per player
score_puddings(num_puddings) ==
    LET c == _count_pudding(num_puddings)
    IN  [i \in DOMAIN num_puddings |->
            IF num_puddings[i] = c[1] THEN c[2]
            ELSE IF num_puddings[i] = c[3] THEN <<-c[4][1], c[4][2]>>
            ELSE <<0, 1>>]

\* ScoreAndPudding
ScoreAndPudding(total_score, num_pudding) ==
    [total_score |-> total_score, num_pudding |-> num_pudding]

\* rank_players_loop_score_only ranking every player at the maximum score, whatever the puddings
RECURSIVE rank_players_loop_score_only(_, _, _, _)
rank_players_loop_score_only(players, rank, unscored, player_ranks) ==
    IF rank >= Len(players) THEN [err |-> "ok", unscored |-> unscored, player_ranks |-> player_ranks]
    ELSE IF Cardinality(DOMAIN player_ranks) > rank
    THEN rank_players_loop_score_only(players, rank + 1, unscored, player_ranks)
    ELSE IF unscored = {}
    THEN [err |-> "AssertionError", unscored |-> unscored, player_ranks |-> player_ranks]
    ELSE
        LET max_score == SetMax({players[i].total_score : i \in unscored})
            players_at_max_score == {i \in unscored : players[i].total_score = max_score}
            max_num_puddings_of_players_at_max_score ==
                SetMax({players[i].num_pudding : i \in players_at_max_score})
            players_at_max_score_and_max_puddings ==
                {i \in players_at_max_score :
                    players[i].num_pudding = max_num_puddings_of_players_at_max_score}
            ranked == players_at_max_score
        IN  rank_players_loop_score_only(players, rank + 1, unscored \ ranked,
                [i \in DOMAIN player_ranks \cup ranked |->
                    IF i \in ranked THEN rank ELSE player_ranks[i]])

\* rank_players: the loop "for rank in range(len(players))"; unscored is the key set
\* of unscored_players, player_ranks the dict built so far
RECURSIVE rank_players_loop(_, _, _, _)
rank_players_loop(players, rank, unscored, player_ranks) ==
    IF rank >= Len(players) THEN [err |-> "ok", unscored |-> unscored, player_ranks |-> player_ranks]
    ELSE IF Cardinality(DOMAIN player_ranks) > rank
    THEN rank_players_loop(players, rank + 1, unscored, player_ranks)
    ELSE IF unscored = {}
    THEN [err |-> "AssertionError", unscored |-> unscored, player_ranks |-> player_ranks]
    ELSE
        LET max_score == SetMax({players[i].total_score : i \in unscored})
            players_at_max_score == {i \in unscored : players[i].total_score = max_score}
            max_num_puddings_of_players_at_max_score ==
                SetMax({players[i].num_pudding : i \in players_at_max_score})
            players_at_max_score_and_max_puddings ==
                {i \in players_at_max_score :
                    players[i].num_pudding = max_num_puddings_of_players_at_max_score}
            ranked == IF Cardinality(players_at_max_score) = 1
                      THEN players_at_max_score
                      ELSE players_at_max_score_and_max_puddings
        IN  rank_players_loop(players, rank + 1, unscored \ ranked,
                [i \in DOMAIN player_ranks \cup ranked |->
                    IF i \in ranked THEN rank ELSE player_ranks[i]])

\* rank_players: [err, ranks]; ranks are 1-indexed
rank_players(players) ==
    IF Len(players) = 0 THEN [err |-> "AssertionError", ranks |-> <<>>]
    ELSE LET r == rank_players_loop(players, 0, DOMAIN players, <<>>)
         IN  IF r.err # "ok" \/ r.unscored # {} \/ DOMAIN r.player_ranks # DOMAIN players
             THEN [err |-> "AssertionError", ranks |-> <<>>]
             ELSE LET player_ranks_list == [i \in DOMAIN players |-> r.player_ranks[i] + 1]
                  IN  IF SetMin(Range(player_ranks_list)) # 1
                      THEN [err |-> "AssertionError", ranks |-> <<>>]
                      ELSE [err |-> "ok", ranks |-> player_ranks_list]

----------------------------------------------------------------------------
(* Numbers.  The solver's Real values (scores with the pudding tiebreaker,    *)
(* square-root differentials, averages) are held in fixed point: an integer   *)
(* v stands for v / FP, with FP = 1 / PUDDING_TIEBREAKER_SCALE.  Fractions    *)
(* are pairs <<numerator, denominator>>.                                      *)

FP == 1024

\* floor(sqrt(x)) for x >= 0
RECURSIVE isqrt_search(_, _, _)
isqrt_search(x, lo, hi) ==
    IF lo >= hi THEN lo
    ELSE LET mid == (lo + hi + 1) \div 2
         IN  IF mid * mid <= x THEN isqrt_search(x, mid, hi) ELSE isqrt_search(x, lo, mid - 1)

isqrt(x) == isqrt_search(x, 0, 46340)

\* copysign(sqrt(abs(d)), d) of the fixed-point number d, in fixed point
signed_sqrt(d) ==
    IF d >= 0 THEN isqrt(d * FP) ELSE -isqrt((-d) * FP)

\* the fixed-point value of the fraction <<n, d>> (rounded down)
to_fixed(q) == (q[1] * FP) \div q[2]

RECURSIVE SeqSum(_)
SeqSum(s) == IF Len(s) = 0 THEN 0 ELSE s[1] + SeqSum(Tail(s))

\* math.comb
RECURSIVE comb(_, _)
comb(n, k) ==
    IF k < 0 \/ k > n THEN 0
    ELSE IF k = 0 \/ k = n THEN 1
    ELSE comb(n - 1, k - 1) + comb(n - 1, k)

----------------------------------------------------------------------------
(* probablistic_scoring.py *)

\* _possible_matching_hands drawing the other cards from the whole deck
_possible_matching_hands_whole_deck(cards_in_deck, this_card_in_deck, cards_dealing, this_card_dealt) ==
    LET non_this_card_dealt == cards_dealing - this_card_dealt
        other_cards_in_deck == cards_in_deck - this_card_in_deck
    IN  IF non_this_card_dealt < 0 \/ other_cards_in_deck < 0 THEN 0
        ELSE comb(this_card_in_deck, this_card_dealt) * comb(cards_in_deck, non_this_card_dealt)

_possible_matching_hands(cards_in_deck, this_card_in_deck, cards_dealing, this_card_dealt) ==
    LET non_this_card_dealt == cards_dealing - this_card_dealt
        other_cards_in_deck == cards_in_deck - this_card_in_deck
    IN  IF non_this_card_dealt < 0 \/ other_cards_in_deck < 0 THEN 0
        ELSE comb(this_card_in_deck, this_card_dealt) * comb(other_cards_in_deck, non_this_card_dealt)

_total_possible_hands(cards_in_deck, cards_dealing) == comb(cards_in_deck, cards_dealing)

\* SetMin of two numbers
Min2(a, b) == IF a <= b THEN a ELSE b

\* num_cards_odds_list: [err, odds], odds[n + 1] the Fraction for exactly n cards
num_cards_odds_list(cards_in_deck, this_card_in_deck, cards_dealing) ==
    IF cards_dealing > cards_in_deck THEN [err |-> "ValueError", odds |-> <<>>]
    ELSE IF this_card_in_deck = 0 \/ cards_dealing = 0 THEN [err |-> "ok", odds |-> <<(<<1, 1>>)>>]
    ELSE LET total_possible_hands == _total_possible_hands(cards_in_deck, cards_dealing)
         IN  IF total_possible_hands = 0 THEN [err |-> "AssertionError", odds |-> <<>>]
             ELSE [err |-> "ok",
                   odds |-> [k \in 1..(Min2(this_card_in_deck, cards_dealing) + 1) |->
                               <<_possible_matching_hands(cards_in_deck, this_card_in_deck,
                                                          cards_dealing, k - 1),
                                 total_possible_hands>>]]

\* num_cards_odds: [err, odds]; Fraction() raises on a zero denominator
num_cards_odds(cards_in_deck, this_card_in_deck, cards_dealing, this_card_dealt) ==
    IF _total_possible_hands(cards_in_deck, cards_dealing) = 0
    THEN [err |-> "ZeroDivisionError", odds |-> <<0, 1>>]
    ELSE [err |-> "ok",
          odds |-> <<_possible_matching_hands(cards_in_deck, this_card_in_deck, cards_dealing,
                                              this_card_dealt),
                     _total_possible_hands(cards_in_deck, cards_dealing)>>]

\* num_cards_odds_at_least: [err, odds]
num_cards_odds_at_least(cards_in_deck, this_card_in_deck, cards_dealing, this_card_at_least) ==
    LET total_possible_hands == _total_possible_hands(cards_in_deck, cards_dealing)
        total_zero_hands ==
            _possible_matching_hands(cards_in_deck, this_card_in_deck, cards_dealing, 0)
        \* range(this_card_at_least, min(this_card_in_deck, cards_dealing) + 1)
        matching_hands ==
            SeqSum([k \in 1..(Min2(this_card_in_deck, cards_dealing) + 1 - this_card_at_least) |->
                       _possible_matching_hands(cards_in_deck, this_card_in_deck, cards_dealing,
                                                this_card_at_least + k - 1)])
    IN  IF this_card_at_least = 0 \/ this_card_in_deck = 0 THEN [err |-> "ok", odds |-> <<1, 1>>]
        ELSE IF this_card_at_least = 1
        THEN (IF ~(0 < total_zero_hands /\ total_zero_hands < total_possible_hands)
              THEN [err |-> "AssertionError", odds |-> <<0, 1>>]
              ELSE [err |-> "ok",
                    odds |-> <<total_possible_hands - total_zero_hands, total_possible_hands>>])
        ELSE IF ~(0 <= matching_hands /\ matching_hands < total_possible_hands)
        THEN [err |-> "AssertionError", odds |-> <<0, 1>>]
        ELSE [err |-> "ok", odds |-> <<matching_hands, total_possible_hands>>]

\* num_cards_odds_average: [err, avg], avg the Fraction sum(n * odds[n]); the
\* entries of one list share their denominator
num_cards_odds_average(cards_in_deck, this_card_in_deck, cards_dealing) ==
    LET l == num_cards_odds_list(cards_in_deck, this_card_in_deck, cards_dealing)
    IN  IF l.err # "ok" THEN [err |-> l.err, avg |-> <<0, 1>>]
        ELSE [err |-> "ok",
              avg |-> <<SeqSum([k \in DOMAIN l.odds |-> (k - 1) * l.odds[k][1]]),
                        l.odds[1][2]>>]

\* CommonGameState properties
last_round(common) == common.round_idx = common.num_rounds - 1

total_num_cards_per_round(common) == common.num_players * common.num_cards_per_player_per_round

num_cards_dealt(common) == (common.round_idx + 1) * total_num_cards_per_round(common)

num_cards_to_be_dealt(common) ==
    (common.num_rounds - (common.round_idx + 1)) * total_num_cards_per_round(common)

num_cards_remaining_in_deck(common) == common.deck_count - num_cards_dealt(common)

\* ProbablisticScorer.__init__, the fields the solver reads:
\* [err, num_players, average_num_pudding_future_rounds (a Fraction)].
\* "other.hand" is the hand PlayerState tracks for that seat.
ProbablisticScorer(player_state) ==
    LET common == player_state.common_game_state
        num_unseen_pudding == player_state.deck_dist[Pudding]
        fail(e) == [err |-> e, num_players |-> common.num_players,
                    average_num_pudding_future_rounds |-> <<0, 1>>]
        avg == num_cards_odds_average(num_cards_remaining_in_deck(common), num_unseen_pudding,
                                      num_cards_to_be_dealt(common))
    IN  IF \E i \in DOMAIN player_state.hands : Len(player_state.hands[i]) # Len(player_state.hands[1])
        THEN fail("AssertionError")
        ELSE IF num_unseen_pudding < 0 THEN fail("AssertionError")
        ELSE IF num_cards_to_be_dealt(common) # 0 /\ num_unseen_pudding # 0
        THEN (IF avg.err # "ok" THEN fail(avg.err)
              ELSE IF ~(0 < avg.avg[1] /\ avg.avg[1] < num_unseen_pudding * avg.avg[2])
              THEN fail("AssertionError")
              ELSE [err |-> "ok", num_players |-> common.num_players,
                    average_num_pudding_future_rounds |-> avg.avg])
        ELSE [err |-> "ok", num_players |-> common.num_players,
              average_num_pudding_future_rounds |-> <<0, 1>>]

Clamp01(v) == IF v < 0 THEN 0 ELSE IF v > FP THEN FP ELSE v

\* _delta_range_probabilities (include_self_as_none=False): the fixed-point odds of
\* beating each other player, by seat; 1 - zero_x = (avg + delta) / (2 avg)
_delta_range_probabilities(counts, player_idx, average_num_yet_to_see) ==
    [i \in DOMAIN counts \ {player_idx} |->
        Clamp01(((average_num_yet_to_see[1]
                    + (counts[player_idx] - counts[i]) * average_num_yet_to_see[2]) * FP)
                \div (2 * average_num_yet_to_see[1]))]

\* math.prod of fixed-point numbers
RECURSIVE FixedProd(_, _)
FixedProd(f, S) ==
    IF S = {} THEN FP
    ELSE LET i == CHOOSE j \in S : TRUE
         IN  (f[i] * FixedProd(f, S \ {i})) \div FP

\* ProbablisticScorer._calculate_player_probablistic_pudding_score, fixed point
\* (average_num_pudding_yet_to_see > 0)
_calculate_player_probablistic_pudding_score(num_puddings, player_idx, average_num_pudding_yet_to_see) ==
    LET odds_of_beating_players ==
            _delta_range_probabilities(num_puddings, player_idx, average_num_pudding_yet_to_see)
        others == DOMAIN odds_of_beating_players
        first_place_odds == FixedProd(odds_of_beating_players, others)
        last_place_odds == FixedProd([i \in others |-> FP - odds_of_beating_players[i]], others)
    IN  6 * (first_place_odds - last_place_odds)

\* ProbablisticScorer._score_puddings: [err, scores], scores in fixed point
_score_puddings(scorer, num_puddings, average_num_pudding_yet_to_see) ==
    IF Len(num_puddings) # scorer.num_players THEN [err |-> "AssertionError", scores |-> <<>>]
    ELSE IF average_num_pudding_yet_to_see[1] = 0
    THEN [err |-> "ok",
          scores |-> [i \in DOMAIN num_puddings |-> to_fixed(score_puddings(num_puddings)[i])]]
    ELSE IF SetMin(Range(num_puddings)) = SetMax(Range(num_puddings))
    THEN [err |-> "ok", scores |-> [i \in DOMAIN num_puddings |-> 0]]
    ELSE IF average_num_pudding_yet_to_see[1] < 0
    THEN [err |-> "ValueError", scores |-> <<>>]
    ELSE [err |-> "ok",
          scores |-> [i \in DOMAIN num_puddings |->
                        _calculate_player_probablistic_pudding_score(
                            num_puddings, i, average_num_pudding_yet_to_see)]]

end_of_round_score_puddings(scorer, num_puddings) ==
    _score_puddings(scorer, num_puddings, scorer.average_num_pudding_future_rounds)

----------------------------------------------------------------------------
(* player.py: PlayerState.  A PlayerState is the record                      *)
(*   [common_game_state, public_states, deck_dist, num_unseen_dealt_cards,    *)
(*    hands]                                                                  *)
(* with public_states[i] = [plate, play_history, total_score, num_pudding]    *)
(* and seat 1 the player itself (index 0 in the code).                        *)

\* PlayerState.hand
PlayerState_hand(player_state) ==
    IF Len(player_state.hands) = 0 THEN <<>> ELSE player_state.hands[1]

any_unknown_cards(player_state) == player_state.num_unseen_dealt_cards > 0

\* PlayerState._play_card: [err, player_state]
_play_card(player_state, card) ==
    IF card \notin Range(PlayerState_hand(player_state))
    THEN [err |-> "ValueError", player_state |-> player_state]
    ELSE LET removed == [player_state EXCEPT !.hands[1] = ListRemove(@, card)]
         IN  IF ~PlateAddValid(card) THEN [err |-> "ValueError", player_state |-> removed]
             ELSE [err |-> "ok",
                   player_state |->
                       [removed EXCEPT
                           !.public_states[1].plate = Plate_add(@, card),
                           !.public_states[1].num_pudding =
                               IF card = Pudding THEN @ + 1 ELSE @]]

\* PlayerState._play_chopsticks: [err, player_state]
_play_chopsticks(player_state, card1, card2) ==
    IF Len(PlayerState_hand(player_state)) < 2
    THEN [err |-> "ValueError", player_state |-> player_state]
    ELSE IF player_state.public_states[1].plate.chopsticks = 0
    THEN [err |-> "ValueError", player_state |-> player_state]
    ELSE LET taken == [player_state EXCEPT !.public_states[1].plate.chopsticks = @ - 1]
             second(r2) ==
                 IF r2.err # "ok" THEN r2
                 ELSE [err |-> "ok",
                       player_state |-> [r2.player_state EXCEPT !.hands[1] = Append(@, Chopsticks)]]
             first(r1) ==
                 IF r1.err # "ok" THEN r1 ELSE second(_play_card(r1.player_state, card2))
         IN  first(_play_card(taken, card1))

\* PlayerState.play_turn: [err, player_state]
play_turn(player_state, pick) ==
    LET played(r) ==
            IF r.err # "ok" THEN r
            ELSE [err |-> "ok",
                  player_state |->
                      [r.player_state EXCEPT !.public_states[1].play_history = Append(@, pick)]]
    IN  played(IF Len(pick) = 2 THEN _play_chopsticks(player_state, pick[1], pick[2])
               ELSE _play_card(player_state, pick[1]))

----------------------------------------------------------------------------
(* recursive_solver_ai.py: Result, ConsolidatedResults *)

Result(neg_rank, score_differential, score_total) ==
    [neg_rank |-> neg_rank, score_differential |-> score_differential, score_total |-> score_total]

NoResult == Result(0, 0, 0)

\* dataclass(order=True): tuples of the fields in order
TupleGreater(a, b) ==
    \E i \in DOMAIN a : a[i] > b[i] /\ \A j \in 1..(i - 1) : a[j] = b[j]

ResultTuple(r) == <<r.neg_rank, r.score_differential, r.score_total>>

ResultGreater(a, b) == TupleGreater(ResultTuple(a), ResultTuple(b))

\* max(a, b) keeping the first argument whatever the second
ResultMax_keep(a, b) == a

\* max(a, b) and min(a, b) of two Results
ResultMax(a, b) == IF ResultGreater(b, a) THEN b ELSE a

ResultMin(a, b) == IF ResultGreater(a, b) THEN b ELSE a

\* Result.__add__
ResultAdd(a, b) ==
    Result(a.neg_rank + b.neg_rank, a.score_differential + b.score_differential,
           a.score_total + b.score_total)

\* Result.__truediv__ (fixed point, rounded down)
ResultDiv(a, divisor) ==
    Result(a.neg_rank \div divisor, a.score_differential \div divisor, a.score_total \div divisor)

ConsolidatedResults(best, average, worst) == [best |-> best, average |-> average, worst |-> worst]

\* ConsolidatedResults.is_better_than
is_better_than(self, other, is_last_round, consolidation_type) ==
    IF consolidation_type = "best" THEN
        (IF is_last_round
         THEN TupleGreater(ResultTuple(self.best) \o <<self.average.neg_rank>>,
                           ResultTuple(other.best) \o <<other.average.neg_rank>>)
         ELSE TupleGreater(ResultTuple(self.best) \o <<self.average.score_differential>>,
                           ResultTuple(other.best) \o <<other.average.score_differential>>))
    ELSE IF consolidation_type = "worst" THEN
        (IF is_last_round
         THEN TupleGreater(ResultTuple(self.worst) \o <<self.average.neg_rank>>,
                           ResultTuple(other.worst) \o <<other.average.neg_rank>>)
         ELSE TupleGreater(ResultTuple(self.worst) \o <<self.average.score_differential>>,
                           ResultTuple(other.worst) \o <<other.average.score_differential>>))
    ELSE
        (IF is_last_round
         THEN TupleGreater(<<self.average.neg_rank, self.average.score_differential,
                             self.average.score_total>>,
                           <<other.average.neg_rank, other.average.score_differential,
                             other.average.score_total>>)
         ELSE TupleGreater(<<self.average.score_differential, self.average.neg_rank,
                             self.average.score_total>>,
                           <<other.average.score_differential, other.average.neg_rank,
                             other.average.score_total>>))

----------------------------------------------------------------------------
(* recursive_solver_ai.py: _MinimalPlayerState, the record                    *)
(*   [total_scores, num_puddings, plates, hands]                              *)
(* by seat.  total_scores are held in fixed point.                            *)

\* _MinimalPlayerState.from_player_state: [err, state].  Every part is a new
\* object: deque(deque(hand)), list comprehensions, copy(s.plate).
from_player_state(player_state) ==
    LET seats == DOMAIN player_state.public_states
        state == [total_scores |-> [i \in seats |-> player_state.public_states[i].total_score * FP],
                  num_puddings |-> [i \in seats |-> player_state.public_states[i].num_pudding],
                  plates |-> [i \in seats |-> player_state.public_states[i].plate],
                  hands |-> player_state.hands]
    IN  IF any_unknown_cards(player_state) THEN [err |-> "ValueError", state |-> state]
        ELSE IF Len(player_state.hands) # Len(player_state.public_states)
        THEN [err |-> "ValueError", state |-> state]
        ELSE [err |-> "ok", state |-> state]

\* deque.rotate(-1)
Rotate1_back(d) ==
    [i \in DOMAIN d |-> IF i = Len(d) THEN d[1] ELSE d[i + 1]]

\* deque.rotate(1)
Rotate1(d) ==
    [i \in DOMAIN d |-> IF i = 1 THEN d[Len(d)] ELSE d[i - 1]]

\* the inner loop without "hand.append(Card.Chopsticks)"
RECURSIVE PlayCards_no_chopsticks_back(_, _, _, _, _)
PlayCards_no_chopsticks_back(pick, k, hnd, plt, num_pudding) ==
    IF k > Len(pick)
    THEN [err |-> "ok", hand |-> hnd, plate |-> plt, num_pudding |-> num_pudding]
    ELSE IF pick[k] \notin Range(hnd) \/ ~PlateAddValid(pick[k])
    THEN [err |-> "ValueError", hand |-> hnd, plate |-> plt, num_pudding |-> num_pudding]
    ELSE PlayCards_no_chopsticks_back(pick, k + 1, ListRemove(hnd, pick[k]),
                                      Plate_add(plt, pick[k]),
                                      IF pick[k] = Pudding THEN num_pudding + 1 ELSE num_pudding)

\* the inner loop of copy_with_played_cards for one seat, from the k-th card of the
\* pick on: [err, hand, plate, num_pudding]
RECURSIVE PlayCards(_, _, _, _, _)
PlayCards(pick, k, hnd, plt, num_pudding) ==
    IF k > Len(pick)
    THEN [err |-> "ok", hand |-> IF Len(pick) = 2 THEN Append(hnd, Chopsticks) ELSE hnd,
          plate |-> plt, num_pudding |-> num_pudding]
    ELSE IF pick[k] \notin Range(hnd) \/ ~PlateAddValid(pick[k])
    THEN [err |-> "ValueError", hand |-> hnd, plate |-> plt, num_pudding |-> num_pudding]
    ELSE PlayCards(pick, k + 1, ListRemove(hnd, pick[k]), Plate_add(plt, pick[k]),
                   IF pick[k] = Pudding THEN num_pudding + 1 ELSE num_pudding)

\* copy_with_played_cards without the deepcopy: the cards are played on self
copy_with_played_cards_in_place(self, picks) ==
    IF Len(picks) # Len(self.hands)
    THEN [err |-> "ValueError", ret |-> self, self |-> self, shared |-> FALSE]
    ELSE LET seats == DOMAIN self.hands
             played == [i \in seats |->
                          PlayCards(picks[i], 1, self.hands[i], self.plates[i], self.num_puddings[i])]
             ret == [total_scores |-> self.total_scores,
                     num_puddings |-> [i \in seats |-> played[i].num_pudding],
                     plates |-> [i \in seats |-> played[i].plate],
                     hands |-> Rotate1([i \in seats |-> played[i].hand])]
         IN  IF \E i \in seats : played[i].err # "ok"
             THEN [err |-> "ValueError", ret |-> self, self |-> self, shared |-> FALSE]
             ELSE [err |-> "ok", ret |-> ret, self |-> ret, shared |-> TRUE]

\* A call that may write to its receiver returns, beside its value, the receiver as
\* the call leaves it (self).  copy_with_played_cards returns
\*   [err, ret, self, shared]
\* ret the returned snapshot, shared whether ret is the receiver itself rather than
\* a deepcopy of it.
copy_with_played_cards(self, picks) ==
    IF Len(picks) # Len(self.hands)
    THEN [err |-> "ValueError", ret |-> self, self |-> self, shared |-> FALSE]
    ELSE LET seats == DOMAIN self.hands
             played == [i \in seats |->
                          PlayCards(picks[i], 1, self.hands[i], self.plates[i], self.num_puddings[i])]
             ret == [total_scores |-> self.total_scores,
                     num_puddings |-> [i \in seats |-> played[i].num_pudding],
                     plates |-> [i \in seats |-> played[i].plate],
                     hands |-> Rotate1([i \in seats |-> played[i].hand])]
         IN  IF \E i \in seats : played[i].err # "ok"
             THEN [err |-> "ValueError", ret |-> self, self |-> self, shared |-> FALSE]
             ELSE [err |-> "ok", ret |-> ret, self |-> self, shared |-> FALSE]

\* the first loop of play_last_cards_and_score, from seat idx on: [err, plates, num_puddings]
RECURSIVE PlayLastCards(_, _, _, _)
PlayLastCards(hands, idx, plates, num_puddings) ==
    IF idx > Len(hands) THEN [err |-> "ok", plates |-> plates, num_puddings |-> num_puddings]
    ELSE IF Len(hands[idx]) # 1
    THEN [err |-> "AssertionError", plates |-> plates, num_puddings |-> num_puddings]
    ELSE IF ~PlateAddValid(hands[idx][1])
    THEN [err |-> "ValueError", plates |-> plates, num_puddings |-> num_puddings]
    ELSE PlayLastCards(hands, idx + 1,
                       [plates EXCEPT ![idx] = Plate_add(@, hands[idx][1])],
                       [num_puddings EXCEPT ![idx] = IF hands[idx][1] = Pudding THEN @ + 1 ELSE @])

\* _MinimalPlayerState.play_last_cards_and_score (sqrt_score_differential =
\* SQRT_SCORE_DIFFERENTIAL = True): [err, result, self]; it writes to self
play_last_cards_and_score(self, probablistic_scorer) ==
    LET seats == DOMAIN self.hands
        \* the Result once every score is in
        scored(played, rank, total_scores, my_score) ==
            [err |-> "ok",
             result |-> Result(-rank * FP,
                               SeqSum([i \in 1..(Len(total_scores) - 1) |->
                                          signed_sqrt(my_score - total_scores[i + 1])]),
                               my_score),
             self |-> [played EXCEPT !.total_scores = total_scores]]
        \* from ranks = rank_players(...) on; total_scores with the Pudding scores in
        ranked(played, total_scores, ranks) ==
            IF ranks.err # "ok"
            THEN [err |-> ranks.err, result |-> NoResult,
                  self |-> [played EXCEPT !.total_scores = total_scores]]
            ELSE scored(played, ranks.ranks[1],
                        [i \in seats |-> total_scores[i] + played.num_puddings[i]],
                        total_scores[1] + played.num_puddings[1])
        \* from the Pudding scores on; total_scores with the round scores in
        pudding_scored(played, total_scores, pudding_scores) ==
            IF pudding_scores.err # "ok"
            THEN [err |-> pudding_scores.err, result |-> NoResult,
                  self |-> [played EXCEPT !.total_scores = total_scores]]
            ELSE ranked(played,
                        [i \in seats |-> total_scores[i] + pudding_scores.scores[i]],
                        rank_players([i \in seats |->
                            ScoreAndPudding(total_scores[i] + pudding_scores.scores[i],
                                            played.num_puddings[i])]))
        \* from round_scores = score_plates(self.plates) on
        round_scored(played, round_scores) ==
            pudding_scored(played,
                           [i \in seats |-> played.total_scores[i] + round_scores[i] * FP],
                           end_of_round_score_puddings(probablistic_scorer, played.num_puddings))
        \* from the end of the first loop on
        last_played(last, played) ==
            IF last.err # "ok" THEN [err |-> last.err, result |-> NoResult, self |-> played]
            ELSE round_scored(played, score_plates(played.plates))
        last_cards(last) ==
            last_played(last, [self EXCEPT !.plates = last.plates,
                                           !.num_puddings = last.num_puddings])
    IN  IF Len(self.hands) < 2
        THEN [err |-> "AssertionError", result |-> NoResult, self |-> self]
        ELSE last_cards(PlayLastCards(self.hands, 1, self.plates, self.num_puddings))

----------------------------------------------------------------------------
(* recursive_solver_ai.py: _solve_recursive, solve_recursive                  *)
(*                                                                            *)
(* The arguments that stay fixed down the recursion travel in a record args:  *)
(*   [last_round, probablistic_scorer, consolidation_type,                    *)
(*    prune_my_bad_picks, prune_others_bad_picks, first]                      *)
(* Python iterates a set in an order the language leaves open.  The loop over *)
(* my_pick_options keeps the first of the best options it meets, so all the   *)
(* order decides is which of them is met first: the outermost call iterates   *)
(* from the option first, any one of the set.  The inner calls, whose Picks   *)
(* are discarded, iterate in the order SetToSeq gives.                        *)

RECURSIVE SetToSeq(_)
SetToSeq(S) ==
    IF S = {} THEN <<>>
    ELSE LET x == CHOOSE y \in S : TRUE
         IN  <<x>> \o SetToSeq(S \ {x})

\* itertools.product(*other_players_options): one tuple per joint choice
\* the sequence s read cyclically from its element x on (s itself if x is not in it)
StartingAt(s, x) ==
    IF x \notin Range(s) THEN s
    ELSE LET k == CHOOSE i \in DOMAIN s : s[i] = x
         IN  [i \in DOMAIN s |-> s[((k + i - 2) % Len(s)) + 1]]

\* the product holding one joint choice only
RECURSIVE Product_first_only(_)
Product_first_only(sets) ==
    IF Len(sets) = 0 THEN {<<>>}
    ELSE {<<x>> \o rest : x \in {CHOOSE y \in sets[1] : TRUE},
                          rest \in Product_first_only(Tail(sets))}

RECURSIVE Product(_)
Product(sets) ==
    IF Len(sets) = 0 THEN {<<>>}
    ELSE {<<x>> \o rest : x \in sets[1], rest \in Product(Tail(sets))}

MaxRecursionDepth == 10

NoPick == <<>>

\* Beside what the code returns, the loops return visited: the arguments, in order,
\* of the calls of _solve_recursive the node itself has made.
Visit(seen, r) == [r EXCEPT !.visited = seen \o @]

\* the running best replaced also by a candidate that is not worse
KeepBest_replace_on_tie(best, pick_option, pick_result, args) ==
    IF \/ best.pick = NoPick
       \/ ~is_better_than(best.result, pick_result, args.last_round, args.consolidation_type)
    THEN [pick |-> pick_option, result |-> pick_result]
    ELSE best

\* "if (best_pick is None) or pick_result.is_better_than(best_result, ...)": the
\* running best after the candidate pick_option
KeepBest(best, pick_option, pick_result, args) ==
    IF \/ best.pick = NoPick
       \/ is_better_than(pick_result, best.result, args.last_round, args.consolidation_type)
    THEN [pick |-> pick_option, result |-> pick_result]
    ELSE best

\* the depth left as it is
NextDepth_same(recursion_depth) == recursion_depth

\* "recursion_depth=recursion_depth + 1": the depth of the call on a branch
NextDepth(recursion_depth) == recursion_depth + 1

RECURSIVE _solve_recursive(_, _, _)
RECURSIVE OthersLoop(_, _, _, _, _, _, _)
RECURSIVE PicksLoop(_, _, _, _, _, _, _)

\* the loop "for other_player_option in other_players_options_product" from the
\* k-th joint choice on; pick_result is the ConsolidatedResults so far (None while
\* k = 1): [err, pick_result, self, visited], visited the joint choices recursed on
OthersLoop(player_state, args, recursion_depth, pick_option, product, k, pick_result) ==
    LET folded(next_pick_result) ==
            IF k = 1
            THEN ConsolidatedResults(next_pick_result, next_pick_result, next_pick_result)
            ELSE ConsolidatedResults(
                     ResultMax(pick_result.best, next_pick_result),
                     ResultAdd(pick_result.average, next_pick_result),
                     ResultMin(pick_result.worst, next_pick_result))
        \* from the return of _solve_recursive on; after is the receiver after both
        \* calls
        returned(solved, after) ==
            IF solved.err # "ok"
            THEN [err |-> solved.err, pick_result |-> pick_result, self |-> after,
                  visited |-> <<product[k]>>]
            ELSE Visit(<<product[k]>>,
                       OthersLoop(after, args, recursion_depth, pick_option, product, k + 1,
                                  folded(solved.result)))
        \* the callee wrote into the receiver if the snapshot is the receiver itself
        recursed(copied, solved) ==
            returned(solved, IF copied.shared THEN solved.self ELSE copied.self)
        \* from the return of copy_with_played_cards on
        copy_made(copied) ==
            IF copied.err # "ok"
            THEN [err |-> copied.err, pick_result |-> pick_result, self |-> copied.self,
                  visited |-> <<>>]
            ELSE recursed(copied, _solve_recursive(copied.ret, args, NextDepth(recursion_depth)))
    IN  IF k > Len(product)
        THEN [err |-> "ok", pick_result |-> pick_result, self |-> player_state, visited |-> <<>>]
        ELSE copy_made(copy_with_played_cards(player_state, <<pick_option>> \o product[k]))

\* the loop "for pick_option in my_pick_options" from the k-th option on;
\* best is (pick, ConsolidatedResults) or None (best.pick = NoPick):
\* [err, best, self, visited], visited the pairs <<pick_option, joint choice>>
\* recursed on
PicksLoop(player_state, args, recursion_depth, my_pick_options, product, k, best) ==
    LET compared(pick_option, pick_result) == KeepBest(best, pick_option, pick_result, args)
        \* from the end of the loop over the other players' options on
        seen(pick_option, others) ==
            [i \in DOMAIN others.visited |-> <<pick_option, others.visited[i]>>]
        others_done(pick_option, others) ==
            IF others.err # "ok"
            THEN [err |-> others.err, best |-> best, self |-> others.self,
                  visited |-> seen(pick_option, others)]
            ELSE IF Len(product) = 0
            THEN [err |-> "AssertionError", best |-> best, self |-> others.self,
                  visited |-> <<>>]
            ELSE Visit(seen(pick_option, others),
                       PicksLoop(others.self, args, recursion_depth, my_pick_options, product,
                                 k + 1,
                                 compared(pick_option,
                                          [others.pick_result EXCEPT
                                              !.average = ResultDiv(@, Len(product))])))
    IN  IF k > Len(my_pick_options)
        THEN [err |-> "ok", best |-> best, self |-> player_state, visited |-> <<>>]
        ELSE others_done(my_pick_options[k],
                         OthersLoop(player_state, args, recursion_depth, my_pick_options[k],
                                    product, 1,
                                    ConsolidatedResults(NoResult, NoResult, NoResult)))

\* _solve_recursive: [err, pick, result, self, visited]; result is NoResult where the
\* code returns None
_solve_recursive(player_state, args, recursion_depth) ==
    LET fail(e) == [err |-> e, pick |-> NoPick, result |-> NoResult, self |-> player_state,
                    visited |-> <<>>]
        need_result == recursion_depth # 0
        hnd == player_state.hands[1]
        plt == player_state.plates[1]
        num_cards == Len(hnd)
        \* "if num_cards == 1": the return of play_last_cards_and_score
        last_card(last) ==
            [err |-> last.err, pick |-> IF last.err = "ok" THEN Pick1(hnd[1]) ELSE NoPick,
             result |-> last.result, self |-> last.self, visited |-> <<>>]
        \* the return after the loops
        looped(ret) ==
            IF ret.err # "ok"
            THEN [err |-> ret.err, pick |-> NoPick, result |-> NoResult, self |-> ret.self,
                  visited |-> ret.visited]
            ELSE [err |-> "ok",
                  pick |-> ret.best.pick,
                  result |-> IF args.consolidation_type = "best" THEN ret.best.result.best
                             ELSE IF args.consolidation_type = "worst" THEN ret.best.result.worst
                             ELSE ret.best.result.average,
                  self |-> ret.self,
                  visited |-> ret.visited]
        \* from "if len(my_pick_options) == 1 and not need_result" on; iteration is
        \* the order in which the loop meets my_pick_options
        search(iteration, other_players_options_product) ==
            IF Len(iteration) = 1 /\ ~need_result
            THEN [err |-> "ok", pick |-> iteration[1], result |-> NoResult, self |-> player_state,
                  visited |-> <<>>]
            ELSE looped(PicksLoop(player_state, args, recursion_depth, iteration,
                                  other_players_options_product, 1,
                                  [pick |-> NoPick,
                                   result |-> ConsolidatedResults(NoResult, NoResult, NoResult)]))
        \* from the calls of get_all_picks on
        options_found(my_pick_options, other_players_options) ==
            IF my_pick_options.err # "ok" THEN fail(my_pick_options.err)
            ELSE IF \E i \in DOMAIN other_players_options : other_players_options[i].err # "ok"
            THEN fail("AssertionError")
            ELSE search(IF recursion_depth = 0
                        THEN StartingAt(SetToSeq(my_pick_options.picks), args.first)
                        ELSE SetToSeq(my_pick_options.picks),
                        SetToSeq(Product([i \in DOMAIN other_players_options |->
                                             other_players_options[i].picks])))
    IN  IF recursion_depth >= MaxRecursionDepth THEN fail("AssertionError")
        ELSE IF Len(player_state.hands) = 0 THEN fail("IndexError")
        ELSE IF num_cards = 0 THEN fail("ValueError")
        ELSE IF num_cards = 1
        THEN last_card(play_last_cards_and_score(player_state, args.probablistic_scorer))
        ELSE options_found(
                 get_all_picks(hnd, plt, args.prune_my_bad_picks),
                 [i \in 1..(Len(player_state.hands) - 1) |->
                     get_all_picks(player_state.hands[i + 1], player_state.plates[i + 1],
                                   args.prune_others_bad_picks)])

RECURSIVE factorial(_)
factorial(n) == IF n <= 1 THEN 1 ELSE n * factorial(n - 1)

RECURSIVE Power(_, _)
Power(b, e) == IF e = 0 THEN 1 ELSE b * Power(b, e - 1)

PruneThreshold == 2000

\* b ** e where it is at most cap, cap + 1 where it is more (Python integers are
\* unbounded, and the power is only compared with the threshold)
RECURSIVE CappedPower(_, _, _)
CappedPower(b, e, cap) ==
    IF e = 0 THEN 1
    ELSE IF b > cap THEN cap + 1
    ELSE LET rest(r) == IF r * b > cap THEN cap + 1 ELSE r * b
         IN  rest(CappedPower(b, e - 1, cap))

\* prune_my_bad_picks with the senses of the player count turned round
PruneMyBadPicks_three_or_more(num_cards, num_players) ==
    num_players >= 3 \/ CappedPower(factorial(num_cards), num_players, PruneThreshold) > PruneThreshold

\* "prune_my_bad_picks = (num_players < 3) or (base_num_possibilities > 2000)", with
\* base_num_possibilities = factorial(num_cards) ** num_players
PruneMyBadPicks(num_cards, num_players) ==
    num_players < 3 \/ CappedPower(factorial(num_cards), num_players, PruneThreshold) > PruneThreshold

\* solve_recursive_early taking the early return for a uniform hand whatever the plate
solve_recursive_early_any_plate(player_state) ==
    LET hnd == PlayerState_hand(player_state)
        num_cards == Len(hnd)
    IN  IF num_cards = 0 THEN [done |-> TRUE, err |-> "ValueError", pick |-> NoPick]
        ELSE IF num_cards = 1 THEN [done |-> TRUE, err |-> "ok", pick |-> Pick1(hnd[1])]
        ELSE IF Cardinality(Range(hnd)) = 1
        THEN [done |-> TRUE, err |-> "ok", pick |-> Pick1(hnd[1])]
        ELSE [done |-> FALSE, err |-> "ok", pick |-> NoPick]

\* solve_recursive up to its early returns: [done, err, pick], done whether the call
\* ends there
solve_recursive_early(player_state) ==
    LET hnd == PlayerState_hand(player_state)
        num_cards == Len(hnd)
    IN  IF num_cards = 0 THEN [done |-> TRUE, err |-> "ValueError", pick |-> NoPick]
        ELSE IF num_cards = 1 THEN [done |-> TRUE, err |-> "ok", pick |-> Pick1(hnd[1])]
        ELSE IF player_state.public_states[1].plate.chopsticks = 0 /\ Cardinality(Range(hnd)) = 1
        THEN [done |-> TRUE, err |-> "ok", pick |-> Pick1(hnd[1])]
        ELSE [done |-> FALSE, err |-> "ok", pick |-> NoPick]

\* solve_recursive playing the Pick it has found on player_state before it returns
solve_recursive_in_place(player_state, consolidation_type, first) ==
    LET fail(e) == [err |-> e, pick |-> NoPick, player_state |-> player_state]
        num_cards == Len(PlayerState_hand(player_state))
        num_players == 1 + (Len(player_state.public_states) - 1)
        prune_my_bad_picks == PruneMyBadPicks(num_cards, num_players)
        prune_others_bad_picks == TRUE
        \* the return of _solve_recursive
        returned(solved) ==
            IF solved.err # "ok" THEN fail(solved.err)
            ELSE [err |-> "ok", pick |-> solved.pick,
                  player_state |-> play_turn(player_state, solved.pick).player_state]
        \* from the minimal state and the scorer on
        search(minimal_player_state, probablistic_scorer) ==
            IF minimal_player_state.err # "ok" THEN fail(minimal_player_state.err)
            ELSE IF probablistic_scorer.err # "ok" THEN fail(probablistic_scorer.err)
            ELSE returned(_solve_recursive(
                              minimal_player_state.state,
                              [last_round |-> last_round(player_state.common_game_state),
                               probablistic_scorer |-> probablistic_scorer,
                               consolidation_type |-> consolidation_type,
                               prune_my_bad_picks |-> prune_my_bad_picks,
                               prune_others_bad_picks |-> prune_others_bad_picks,
                               first |-> first],
                              0))
        \* from the early returns on
        begun(early) ==
            IF early.done
            THEN [err |-> early.err, pick |-> early.pick, player_state |-> player_state]
            ELSE search(from_player_state(player_state), ProbablisticScorer(player_state))
    IN  begun(solve_recursive_early(player_state))

\* solve_recursive: [err, pick, player_state], player_state the argument as the call
\* leaves it.  The search works on minimal_player_state, which shares nothing with
\* player_state, and ProbablisticScorer only reads: nothing writes to player_state.
solve_recursive(player_state, consolidation_type, first) ==
    LET fail(e) == [err |-> e, pick |-> NoPick, player_state |-> player_state]
        num_cards == Len(PlayerState_hand(player_state))
        num_players == 1 + (Len(player_state.public_states) - 1)
        prune_my_bad_picks == PruneMyBadPicks(num_cards, num_players)
        prune_others_bad_picks == TRUE
        \* the return of _solve_recursive
        returned(solved) ==
            IF solved.err # "ok" THEN fail(solved.err)
            ELSE [err |-> "ok", pick |-> solved.pick,
                  player_state |-> player_state]
        \* from the minimal state and the scorer on
        search(minimal_player_state, probablistic_scorer) ==
            IF minimal_player_state.err # "ok" THEN fail(minimal_player_state.err)
            ELSE IF probablistic_scorer.err # "ok" THEN fail(probablistic_scorer.err)
            ELSE returned(_solve_recursive(
                              minimal_player_state.state,
                              [last_round |-> last_round(player_state.common_game_state),
                               probablistic_scorer |-> probablistic_scorer,
                               consolidation_type |-> consolidation_type,
                               prune_my_bad_picks |-> prune_my_bad_picks,
                               prune_others_bad_picks |-> prune_others_bad_picks,
                               first |-> first],
                              0))
        \* from the early returns on
        begun(early) ==
            IF early.done
            THEN [err |-> early.err, pick |-> early.pick, player_state |-> player_state]
            ELSE search(from_player_state(player_state), ProbablisticScorer(player_state))
    IN  begun(solve_recursive_early(player_state))

\* solve_recursive up to its call of _solve_recursive: [err, called, prune_my_bad_picks,
\* prune_others_bad_picks], called whether the call is made, and the two flags it is
\* given
solve_recursive_arguments(player_state) ==
    LET num_cards == Len(PlayerState_hand(player_state))
        num_players == 1 + (Len(player_state.public_states) - 1)
        none(e) == [err |-> e, called |-> FALSE, prune_my_bad_picks |-> FALSE,
                    prune_others_bad_picks |-> FALSE]
        begun(early, minimal_player_state, probablistic_scorer) ==
            IF early.done THEN none(early.err)
            ELSE IF minimal_player_state.err # "ok" THEN none(minimal_player_state.err)
            ELSE IF probablistic_scorer.err # "ok" THEN none(probablistic_scorer.err)
            ELSE [err |-> "ok", called |-> TRUE,
                  prune_my_bad_picks |-> PruneMyBadPicks(num_cards, num_players),
                  prune_others_bad_picks |-> TRUE]
    IN  begun(solve_recursive_early(player_state), from_player_state(player_state),
              ProbablisticScorer(player_state))

----------------------------------------------------------------------------
(* Bounds of the exploration *)

MaxHandLen == 3
MaxChopsticks == 1
MaxWasabi == 2

Hands(n) == UNION {[1..k -> Cards] : k \in 0..n}

NotCalled == [err |-> "none", picks |-> {}]

MaxRankPlayers == 4
MaxTotalScore == 2
MaxNumPudding == 1

NoRanks == [err |-> "none", rank_output |-> <<>>]

\* the values of the variables a specification does not use
PicksIdle ==
    /\ hand = <<>>
    /\ plate = EmptyPlate
    /\ prune_likely_bad_picks = FALSE
    /\ options = NotCalled

RankIdle ==
    /\ rank_input = <<>>
    /\ rank_output = NoRanks

NoPlayerState == [hands |-> <<>>]

NotSolved == [err |-> "none", pick |-> <<>>]

NotPlayed == [err |-> "none"]

NoState == [err |-> "none"]

SolveIdle ==
    /\ solve_input = NoPlayerState
    /\ solve_type = "none"
    /\ solve_output = NotSolved
    /\ turn_output = NotPlayed
    /\ parent_state = NoState
    /\ child_state = NoState
    /\ leaf_output = NoState

SearchIdle ==
    /\ fold_output = NoState
    /\ node_output = NoState

WalkIdle ==
    /\ walk_root = NoState
    /\ walk_picks = <<>>
    /\ walk_state = NoState
    /\ walk_result = NoState

PairIdle ==
    /\ pair_input = NoState
    /\ pair_output = NoState

NoExpectation == [err |-> "none", scores |-> <<>>]

ExpectIdle ==
    /\ expect_input = NoState
    /\ expect_output = NoExpectation

PlateIdle ==
    /\ check_kinds = {}
    /\ check_history = <<>>
    /\ check_plate = NoState

KnowIdle ==
    /\ know_state = NoState
    /\ know_hands = <<>>
    /\ know_deck = <<>>
    /\ know_phase = "none"

PruneIdle ==
    /\ prune_output = NoState

MoreIdle ==
    /\ PruneIdle
    /\ WalkIdle
    /\ KnowIdle
    /\ PlateIdle
    /\ ExpectIdle
    /\ PairIdle

NoComparison == [consolidation_type |-> "none"]

CompareIdle ==
    /\ compare_input = NoComparison
    /\ compare_output = NoState

NoScores == [err |-> "none", scores |-> <<>>]

ScoreIdle ==
    /\ score_input = <<>>
    /\ maki_output = NoScores
    /\ pudding_output = NoScores

NoOddsInput ==
    [cards_in_deck |-> 0, this_card_in_deck |-> 0, cards_dealing |-> 0, this_card_at_least |-> 0]

NoOdds == [err |-> "none", odds |-> <<>>]

OddsIdle ==
    /\ odds_input = NoOddsInput
    /\ odds_list_output = NoOdds
    /\ odds_at_least_output = NoOdds

----------------------------------------------------------------------------
(* Specification Spec: get_all_picks on every hand and plate within bounds *)

Init ==
    /\ hand \in Hands(MaxHandLen)
    /\ plate \in {[EmptyPlate EXCEPT !.chopsticks = c, !.unused_wasabi = w] :
                     c \in 0..MaxChopsticks, w \in 0..MaxWasabi}
    /\ prune_likely_bad_picks \in BOOLEAN
    /\ options = NotCalled
    /\ RankIdle
    /\ ScoreIdle
    /\ OddsIdle
    /\ SolveIdle
    /\ SearchIdle
    /\ MoreIdle
    /\ CompareIdle

CallGetAllPicks ==
    /\ options = NotCalled
    /\ options' = get_all_picks(hand, plate, prune_likely_bad_picks)
    /\ UNCHANGED <<hand, plate, prune_likely_bad_picks>>
    /\ UNCHANGED rank_vars
    /\ UNCHANGED score_vars
    /\ UNCHANGED odds_vars
    /\ UNCHANGED solve_vars
    /\ UNCHANGED search_vars
    /\ UNCHANGED compare_vars
    /\ UNCHANGED more_vars

Next == CallGetAllPicks

Spec == Init /\ [][Next]_vars

----------------------------------------------------------------------------
(* Specification SpecRank: rank_players on every list of rank_input within bounds *)

\* three players, two of them level on total_score and apart on num_pudding
RankExample == <<ScoreAndPudding(10, 2), ScoreAndPudding(10, 1), ScoreAndPudding(8, 0)>>

InitRank ==
    /\ rank_input \in UNION {[1..n -> {ScoreAndPudding(s, p) : s \in 0..MaxTotalScore,
                                                            p \in 0..MaxNumPudding}] :
                             n \in 1..MaxRankPlayers}
                         \cup {RankExample}
    /\ rank_output = NoRanks
    /\ PicksIdle
    /\ SolveIdle
    /\ ScoreIdle
    /\ OddsIdle
    /\ SearchIdle
    /\ MoreIdle
    /\ CompareIdle

CallRankPlayers ==
    /\ rank_output = NoRanks
    /\ Len(rank_input) > 0
    /\ rank_output' = rank_players(rank_input)
    /\ UNCHANGED rank_input
    /\ UNCHANGED picks_vars
    /\ UNCHANGED solve_vars
    /\ UNCHANGED score_vars
    /\ UNCHANGED odds_vars
    /\ UNCHANGED search_vars
    /\ UNCHANGED compare_vars
    /\ UNCHANGED more_vars

NextRank == CallRankPlayers

SpecRank == InitRank /\ [][NextRank]_vars

----------------------------------------------------------------------------
(* Specification SpecScore: score_maki and score_puddings on every list of    *)
(* counts within bounds                                                       *)

MaxScorePlayers == 5
MaxCount == 3

\* three plates, two of them level on the most Maki
MakiExample == <<6, 6, 3>>

InitScore ==
    /\ score_input \in UNION {[1..n -> 0..MaxCount] : n \in 1..MaxScorePlayers}
                          \cup {MakiExample}
    /\ maki_output = NoScores
    /\ pudding_output = NoScores
    /\ PicksIdle
    /\ RankIdle
    /\ SolveIdle
    /\ OddsIdle
    /\ SearchIdle
    /\ MoreIdle
    /\ CompareIdle

\* score_maki(nums_maki); _count_maki_plates asserts len(nums_maki) >= 2
CallScoreMaki ==
    /\ maki_output = NoScores
    /\ maki_output' = IF Len(score_input) < 2 THEN [err |-> "AssertionError", scores |-> <<>>]
                      ELSE [err |-> "ok", scores |-> score_maki(score_input)]
    /\ UNCHANGED <<score_input, pudding_output>>
    /\ UNCHANGED picks_vars
    /\ UNCHANGED rank_vars
    /\ UNCHANGED solve_vars
    /\ UNCHANGED odds_vars
    /\ UNCHANGED search_vars
    /\ UNCHANGED compare_vars
    /\ UNCHANGED more_vars

\* score_puddings(num_puddings); _count_pudding asserts num_players > 1
CallScorePuddings ==
    /\ pudding_output = NoScores
    /\ pudding_output' = IF Len(score_input) < 2 THEN [err |-> "AssertionError", scores |-> <<>>]
                         ELSE [err |-> "ok", scores |-> score_puddings(score_input)]
    /\ UNCHANGED <<score_input, maki_output>>
    /\ UNCHANGED picks_vars
    /\ UNCHANGED rank_vars
    /\ UNCHANGED solve_vars
    /\ UNCHANGED odds_vars
    /\ UNCHANGED search_vars
    /\ UNCHANGED compare_vars
    /\ UNCHANGED more_vars

NextScore ==
    \/ CallScoreMaki
    \/ CallScorePuddings

SpecScore == InitScore /\ [][NextScore]_vars

----------------------------------------------------------------------------
(* Specification SpecOdds: num_cards_odds_list and num_cards_odds_at_least on *)
(* every deck within bounds                                                   *)

MaxDeck == 5

InitOdds ==
    /\ odds_input \in [cards_in_deck : 0..MaxDeck, this_card_in_deck : 0..MaxDeck,
                        cards_dealing : 0..MaxDeck, this_card_at_least : 0..(MaxDeck + 1)]
    \* the deck holds no more of a card than it holds cards
    /\ odds_input.this_card_in_deck <= odds_input.cards_in_deck
    /\ odds_list_output = NoOdds
    /\ odds_at_least_output = NoOdds
    /\ PicksIdle
    /\ RankIdle
    /\ SolveIdle
    /\ ScoreIdle
    /\ SearchIdle
    /\ MoreIdle
    /\ CompareIdle

CallNumCardsOddsList ==
    /\ odds_list_output = NoOdds
    /\ odds_list_output' = num_cards_odds_list(odds_input.cards_in_deck,
                                               odds_input.this_card_in_deck,
                                               odds_input.cards_dealing)
    /\ UNCHANGED <<odds_input, odds_at_least_output>>
    /\ UNCHANGED picks_vars
    /\ UNCHANGED rank_vars
    /\ UNCHANGED solve_vars
    /\ UNCHANGED score_vars
    /\ UNCHANGED search_vars
    /\ UNCHANGED compare_vars
    /\ UNCHANGED more_vars

CallNumCardsOddsAtLeast ==
    /\ odds_at_least_output = NoOdds
    /\ odds_at_least_output' = num_cards_odds_at_least(odds_input.cards_in_deck,
                                                       odds_input.this_card_in_deck,
                                                       odds_input.cards_dealing,
                                                       odds_input.this_card_at_least)
    /\ UNCHANGED <<odds_input, odds_list_output>>
    /\ UNCHANGED picks_vars
    /\ UNCHANGED rank_vars
    /\ UNCHANGED solve_vars
    /\ UNCHANGED score_vars
    /\ UNCHANGED search_vars
    /\ UNCHANGED compare_vars
    /\ UNCHANGED more_vars

NextOdds ==
    \/ CallNumCardsOddsList
    \/ CallNumCardsOddsAtLeast

SpecOdds == InitOdds /\ [][NextOdds]_vars

----------------------------------------------------------------------------
(* Specification SpecSolve: solve_recursive, and the steps it is made of, on  *)
(* every PlayerState within bounds.  A PlayerState is given by the number of  *)
(* players, the hands, the cards each seat has played this round, the round   *)
(* and the unseen Pudding.                                                    *)

MaxPlayers == 2
MaxSolveHandLen == 3
NumRounds == 2
MaxUnseenPudding == 1
ExtraDeckCards == 2

\* the cards of the hands: those of the acting player and those of the others; the
\* longest hands are drawn from fewer cards
OwnCards(n) ==
    IF n < MaxSolveHandLen THEN {Sashimi, SquidNigiri, Wasabi, Maki3, Pudding}
    ELSE {Sashimi, SquidNigiri, Wasabi}

OtherCards(n) ==
    IF n < MaxSolveHandLen THEN {Dumpling, Maki3, Pudding}
    ELSE {Dumpling, Maki3}

\* hands are kept in ascending order (PlayerState.init_round sorts them)
SortedHands(cards, n) ==
    {h \in [1..n -> cards] : \A i \in 1..(n - 1) : h[i] <= h[i + 1]}

\* the cards the acting player may have played this round, in order
OwnPlayed == {<<>>, <<Chopsticks>>, <<Sashimi, Sashimi>>, <<Chopsticks, Sashimi, Sashimi>>}

\* the cards every other player has played this round, in order
OtherPlayedLine == <<Dumpling, Maki2, Dumpling>>

RECURSIVE PlateOf(_)
PlateOf(played) ==
    IF Len(played) = 0 THEN EmptyPlate
    ELSE Plate_add(PlateOf(SubSeq(played, 1, Len(played) - 1)), played[Len(played)])

ConsolidationTypes == {"best", "average", "worst"}

\* the PlayerState of the acting player: own_hand and other_hands the hands by seat,
\* known false when the other hands are still unseen, own_played what the acting
\* player has played, behind whether the others lead from the round before
MakePlayerState(num_players, own_hand, other_hands, known, own_played, round_idx, behind, unseen_pudding) ==
    LET n == Len(own_hand)
        seats == 1..num_players
        played == [i \in seats |-> IF i = 1 THEN own_played
                                   ELSE SubSeq(OtherPlayedLine, 1, Len(own_played))]
        num_cards_per_player_per_round == n + Len(own_played)
        common == [deck_count |-> num_players * num_cards_per_player_per_round * NumRounds
                                    + ExtraDeckCards,
                   num_players |-> num_players,
                   num_rounds |-> NumRounds,
                   round_idx |-> round_idx,
                   num_cards_per_player_per_round |-> num_cards_per_player_per_round]
        num_unseen_dealt_cards == IF known THEN 0 ELSE (num_players - 1) * n
        num_unseen == num_cards_remaining_in_deck(common) + num_unseen_dealt_cards
    IN  [common_game_state |-> common,
         public_states |->
             [i \in seats |->
                 [plate |-> PlateOf(played[i]),
                  play_history |-> [k \in DOMAIN played[i] |-> Pick1(played[i][k])],
                  total_score |-> IF behind /\ i # 1 THEN 2 ELSE 0,
                  num_pudding |-> count_card(played[i], Pudding)
                                    + (IF behind /\ i # 1 THEN 1 ELSE 0)]],
         deck_dist |-> [c \in Cards |-> IF c = Pudding THEN unseen_pudding
                                        ELSE IF c = Tempura THEN num_unseen - unseen_pudding
                                        ELSE 0],
         num_unseen_dealt_cards |-> num_unseen_dealt_cards,
         hands |-> [i \in seats |-> IF i = 1 THEN own_hand
                                    ELSE IF known THEN other_hands[i - 1]
                                    ELSE [k \in 1..n |-> Unknown]]]

InitSolve ==
    /\ \E n \in 0..MaxSolveHandLen :
       \E own_hand \in SortedHands(OwnCards(n), n) :
       \E other_hands \in [1..(MaxPlayers - 1) -> SortedHands(OtherCards(n), n)] :
       \E known \in BOOLEAN, behind \in BOOLEAN :
       \E own_played \in OwnPlayed :
       \E round_idx \in 0..(NumRounds - 1) :
       \E unseen_pudding \in 0..MaxUnseenPudding :
          \* the Pudding still unseen has been dealt by the last round
          /\ unseen_pudding = (IF round_idx = NumRounds - 1 THEN 0 ELSE MaxUnseenPudding)
          \* the other hands are unseen until they have come round
          /\ ~known => Len(own_played) < MaxPlayers - 1
          /\ ~known => \A i \in DOMAIN other_hands : \A k \in 1..n : other_hands[i][k] = Dumpling
          /\ behind => round_idx > 0
          /\ solve_input = MakePlayerState(MaxPlayers, own_hand, other_hands, known, own_played,
                                           round_idx, behind, unseen_pudding)
    /\ solve_type \in ConsolidationTypes
    /\ solve_output = NotSolved
    /\ turn_output = NotPlayed
    /\ parent_state = NoState
    /\ child_state = NoState
    /\ leaf_output = NoState
    /\ PicksIdle
    /\ RankIdle
    /\ ScoreIdle
    /\ OddsIdle
    /\ SearchIdle
    /\ MoreIdle
    /\ CompareIdle

Untouched ==
    /\ options = NotCalled
    /\ solve_output = NotSolved
    /\ parent_state = NoState

\* get_all_picks on the acting player's hand and plate
CallGetAllPicksOfHand ==
    /\ options = NotCalled
    /\ turn_output = NotPlayed
    /\ child_state = NoState
    /\ \E prune \in BOOLEAN :
          /\ prune_likely_bad_picks' = prune
          /\ hand' = PlayerState_hand(solve_input)
          /\ plate' = solve_input.public_states[1].plate
          /\ options' = get_all_picks(hand', plate', prune)
    /\ UNCHANGED rank_vars
    /\ UNCHANGED score_vars
    /\ UNCHANGED odds_vars
    /\ UNCHANGED solve_vars
    /\ UNCHANGED search_vars
    /\ UNCHANGED compare_vars
    /\ UNCHANGED more_vars

\* the Picks the set my_pick_options of the outermost call can hold
RootOptions(player_state) ==
    LET found(all) == IF all.err = "ok" THEN all.picks ELSE {NoPick}
    IN  found(get_all_picks(PlayerState_hand(player_state),
                            player_state.public_states[1].plate, FALSE))

\* pick = solve_recursive(player_state, consolidation_type)
CallSolveRecursive ==
    /\ Untouched
    /\ \E first \in RootOptions(solve_input) :
       \E r \in {solve_recursive(solve_input, solve_type, first)} :
          /\ solve_output' = [err |-> r.err, pick |-> r.pick]
          /\ solve_input' = r.player_state
    /\ UNCHANGED <<solve_type, turn_output, parent_state, child_state, leaf_output>>
    /\ UNCHANGED picks_vars
    /\ UNCHANGED rank_vars
    /\ UNCHANGED score_vars
    /\ UNCHANGED odds_vars
    /\ UNCHANGED search_vars
    /\ UNCHANGED compare_vars
    /\ UNCHANGED more_vars

\* player_state.play_turn(pick) with the Pick solve_recursive returned
CallPlayTurn ==
    /\ options = NotCalled
    /\ solve_output.err = "ok"
    /\ turn_output = NotPlayed
    /\ \E r \in {play_turn(solve_input, solve_output.pick)} :
          turn_output' = [err |-> r.err, player_state |-> r.player_state]
    /\ UNCHANGED <<solve_input, solve_type, solve_output, parent_state, child_state, leaf_output>>
    /\ UNCHANGED picks_vars
    /\ UNCHANGED rank_vars
    /\ UNCHANGED score_vars
    /\ UNCHANGED odds_vars
    /\ UNCHANGED search_vars
    /\ UNCHANGED compare_vars
    /\ UNCHANGED more_vars

\* minimal_player_state = _MinimalPlayerState.from_player_state(player_state)
CallFromPlayerState ==
    /\ Untouched
    /\ parent_state' = from_player_state(solve_input)
    /\ UNCHANGED <<solve_input, solve_type, solve_output, turn_output, child_state, leaf_output>>
    /\ UNCHANGED picks_vars
    /\ UNCHANGED rank_vars
    /\ UNCHANGED score_vars
    /\ UNCHANGED odds_vars
    /\ UNCHANGED search_vars
    /\ UNCHANGED compare_vars
    /\ UNCHANGED more_vars

\* _solve_recursive(minimal_player_state, ...) as solve_recursive calls it, with
\* either value of prune_my_bad_picks
CallSolveRecursiveInner ==
    /\ options = NotCalled
    /\ parent_state.err = "ok"
    /\ child_state = NoState
    /\ leaf_output = NoState
    /\ \E probablistic_scorer \in {ProbablisticScorer(solve_input)} :
       \E prune_my_bad_picks \in BOOLEAN :
          /\ probablistic_scorer.err = "ok"
          /\ \E r \in {_solve_recursive(
                            parent_state.state,
                            [last_round |-> last_round(solve_input.common_game_state),
                             probablistic_scorer |-> probablistic_scorer,
                             consolidation_type |-> solve_type,
                             prune_my_bad_picks |-> prune_my_bad_picks,
                             prune_others_bad_picks |-> TRUE,
                             first |-> NoPick],
                            0)} :
                /\ leaf_output' = [err |-> r.err, pick |-> r.pick, result |-> r.result]
                /\ parent_state' = [parent_state EXCEPT !.state = r.self]
    /\ UNCHANGED <<solve_input, solve_type, solve_output, turn_output, child_state>>
    /\ UNCHANGED picks_vars
    /\ UNCHANGED rank_vars
    /\ UNCHANGED score_vars
    /\ UNCHANGED odds_vars
    /\ UNCHANGED search_vars
    /\ UNCHANGED compare_vars
    /\ UNCHANGED more_vars

\* the Picks tried on the acting seat: the legal ones, every single card, and every
\* card of the hand twice
PicksToTry(hnd, plt) ==
    RootOptions([hands |-> <<hnd>>, public_states |-> <<[plate |-> plt]>>])
        \cup {Pick1(c) : c \in OwnCards(0)} \cup {Pick2(c, c) : c \in Range(hnd)}

\* next_player_state = minimal_player_state.copy_with_played_cards(*picks)
CallCopyWithPlayedCards ==
    /\ options = NotCalled
    /\ parent_state.err = "ok"
    /\ child_state = NoState
    /\ leaf_output = NoState
    /\ \A i \in DOMAIN parent_state.state.hands : Len(parent_state.state.hands[i]) > 0
    /\ \E pick \in PicksToTry(parent_state.state.hands[1], parent_state.state.plates[1]) :
       \E others \in Product([i \in 1..(Len(parent_state.state.hands) - 1) |->
                                 get_all_picks(parent_state.state.hands[i + 1],
                                               parent_state.state.plates[i + 1], TRUE).picks]) :
       \E r \in {copy_with_played_cards(parent_state.state, <<pick>> \o others)} :
          /\ child_state' = [err |-> r.err, state |-> r.ret, shared |-> r.shared,
                              picks |-> <<pick>> \o others]
          /\ parent_state' = [parent_state EXCEPT !.state = r.self]
    /\ UNCHANGED <<solve_input, solve_type, solve_output, turn_output, leaf_output>>
    /\ UNCHANGED picks_vars
    /\ UNCHANGED rank_vars
    /\ UNCHANGED score_vars
    /\ UNCHANGED odds_vars
    /\ UNCHANGED search_vars
    /\ UNCHANGED compare_vars
    /\ UNCHANGED more_vars

\* next_player_state.play_last_cards_and_score(probablistic_scorer), which writes to
\* next_player_state, and to minimal_player_state where the two share their parts
CallPlayLastCardsAndScore ==
    /\ child_state.err = "ok"
    /\ leaf_output = NoState
    /\ \E probablistic_scorer \in {ProbablisticScorer(solve_input)} :
          /\ probablistic_scorer.err = "ok"
          /\ \E r \in {play_last_cards_and_score(child_state.state, probablistic_scorer)} :
                /\ leaf_output' = [err |-> r.err, pick |-> NoPick, result |-> r.result]
                /\ child_state' = [child_state EXCEPT !.state = r.self]
                /\ parent_state' = IF child_state.shared
                                   THEN [parent_state EXCEPT !.state = r.self]
                                   ELSE parent_state
    /\ UNCHANGED <<solve_input, solve_type, solve_output, turn_output>>
    /\ UNCHANGED picks_vars
    /\ UNCHANGED rank_vars
    /\ UNCHANGED score_vars
    /\ UNCHANGED odds_vars
    /\ UNCHANGED search_vars
    /\ UNCHANGED compare_vars
    /\ UNCHANGED more_vars

NextSolve ==
    \/ CallGetAllPicksOfHand
    \/ CallSolveRecursive
    \/ CallPlayTurn
    \/ CallFromPlayerState
    \/ CallSolveRecursiveInner
    \/ CallCopyWithPlayedCards
    \/ CallPlayLastCardsAndScore

SpecSolve == InitSolve /\ [][NextSolve]_vars

----------------------------------------------------------------------------
(* Specification SpecCompare: is_better_than on every pair of                  *)
(* ConsolidatedResults folded from up to MaxBranches Results within bounds    *)

MaxBranches == 2
MaxCompareRank == 2
MaxCompareScore == 1

\* the Results of the branches: a rank, a score differential and a score, in fixed point
BranchResults ==
    {Result(-rank * FP, d * FP, t * FP) :
        rank \in 1..MaxCompareRank, d \in 0..MaxCompareScore, t \in 0..MaxCompareScore}

\* the folding of _solve_recursive over the Results of the branches, from the k-th on
RECURSIVE FoldResults(_, _, _)
FoldResults(results, k, pick_result) ==
    IF k > Len(results) THEN pick_result
    ELSE FoldResults(results, k + 1,
             IF k = 1 THEN ConsolidatedResults(results[k], results[k], results[k])
             ELSE ConsolidatedResults(ResultMax(pick_result.best, results[k]),
                                      ResultAdd(pick_result.average, results[k]),
                                      ResultMin(pick_result.worst, results[k])))

\* the ConsolidatedResults of one candidate: the fold, and "pick_result.average /= n"
Consolidate(results) ==
    [FoldResults(results, 1, ConsolidatedResults(NoResult, NoResult, NoResult))
        EXCEPT !.average = ResultDiv(@, Len(results))]

Consolidated ==
    {Consolidate(results) : results \in UNION {[1..n -> BranchResults] : n \in 1..MaxBranches}}

InitCompare ==
    /\ compare_input \in [self : Consolidated, other : Consolidated, last_round : BOOLEAN,
                           consolidation_type : ConsolidationTypes]
    /\ compare_output = NoState
    /\ PicksIdle
    /\ RankIdle
    /\ SolveIdle
    /\ ScoreIdle
    /\ OddsIdle
    /\ SearchIdle
    /\ MoreIdle

\* self.is_better_than(other, last_round=last_round, consolidation_type=consolidation_type)
CallIsBetterThan ==
    /\ compare_output = NoState
    /\ compare_output' = [err |-> "ok",
                          better |-> is_better_than(compare_input.self, compare_input.other,
                                                    compare_input.last_round,
                                                    compare_input.consolidation_type)]
    /\ UNCHANGED compare_input
    /\ UNCHANGED picks_vars
    /\ UNCHANGED rank_vars
    /\ UNCHANGED solve_vars
    /\ UNCHANGED score_vars
    /\ UNCHANGED odds_vars
    /\ UNCHANGED search_vars
    /\ UNCHANGED more_vars

NextCompare == CallIsBetterThan

SpecCompare == InitCompare /\ [][NextCompare]_vars

----------------------------------------------------------------------------
(* Specification SpecSearch: one node of the search of _solve_recursive, on   *)
(* every fully known PlayerState of up to MaxSearchPlayers players within     *)
(* bounds                                                                      *)

MaxSearchPlayers == 3
MaxSearchCards == 6

\* the cards of the acting player's hand, and what that player has played this round
SearchOwnCards(n) == OwnCards(n) \ {Sashimi}

SearchOwnPlayed == {<<>>, <<Chopsticks>>}

InitSearch ==
    /\ \E num_players \in 2..MaxSearchPlayers :
       \E n \in 2..MaxSolveHandLen :
       \E own_hand \in SortedHands(SearchOwnCards(n), n) :
       \E other_hands \in [1..(num_players - 1) -> SortedHands(OtherCards(n), n)] :
       \E behind \in BOOLEAN :
       \E own_played \in SearchOwnPlayed :
       \E round_idx \in 0..(NumRounds - 1) :
       \E unseen_pudding \in 0..MaxUnseenPudding :
          /\ num_players * n <= MaxSearchCards
          /\ unseen_pudding = (IF round_idx = NumRounds - 1 THEN 0 ELSE MaxUnseenPudding)
          \* the others lead from the round before
          /\ behind = (round_idx > 0)
          /\ solve_input = MakePlayerState(num_players, own_hand, other_hands, TRUE, own_played,
                                           round_idx, behind, unseen_pudding)
    /\ solve_type \in ConsolidationTypes
    /\ solve_output = NotSolved
    /\ turn_output = NotPlayed
    /\ parent_state = NoState
    /\ child_state = NoState
    /\ leaf_output = NoState
    /\ PicksIdle
    /\ RankIdle
    /\ ScoreIdle
    /\ OddsIdle
    /\ SearchIdle
    /\ MoreIdle
    /\ CompareIdle

\* the arguments _solve_recursive passes down unchanged
SearchArgs(player_state, probablistic_scorer, consolidation_type, prune_my_bad_picks, first) ==
    [last_round |-> last_round(player_state.common_game_state),
     probablistic_scorer |-> probablistic_scorer,
     consolidation_type |-> consolidation_type,
     prune_my_bad_picks |-> prune_my_bad_picks,
     prune_others_bad_picks |-> TRUE,
     first |-> first]

\* my_pick_options of the node
NodeOptions(player_state, prune_my_bad_picks) ==
    LET found(all) == IF all.err = "ok" THEN all.picks ELSE {}
    IN  found(get_all_picks(PlayerState_hand(player_state),
                            player_state.public_states[1].plate, prune_my_bad_picks))

\* other_players_options_product of the node
NodeProduct(player_state) ==
    SetToSeq(Product([i \in 1..(Len(player_state.hands) - 1) |->
                         NodeOptions([hands |-> <<player_state.hands[i + 1]>>,
                                      public_states |-> <<player_state.public_states[i + 1]>>],
                                     TRUE)]))

\* one iteration of "for pick_option in my_pick_options" of a node at
\* recursion_depth: the loop over other_players_options_product, the assertion
\* and "pick_result.average /= num_other_player_possibilities"
CallPickOption ==
    /\ fold_output = NoState
    /\ node_output = NoState
    /\ \E recursion_depth \in 0..1 :
       \E prune_my_bad_picks \in BOOLEAN :
       \E pick_option \in NodeOptions(solve_input, prune_my_bad_picks) :
       \E minimal_player_state \in {from_player_state(solve_input)} :
       \E probablistic_scorer \in {ProbablisticScorer(solve_input)} :
       \E product \in {NodeProduct(solve_input)} :
          /\ minimal_player_state.err = "ok"
          /\ probablistic_scorer.err = "ok"
          \* solve_recursive makes the outermost call after its early returns only
          /\ recursion_depth = 0 => ~solve_recursive_early(solve_input).done
          \* the loop is not entered by the outermost call with a single option
          /\ ~(recursion_depth = 0
               /\ Cardinality(NodeOptions(solve_input, prune_my_bad_picks)) = 1)
          /\ \E others \in {OthersLoop(minimal_player_state.state,
                                       SearchArgs(solve_input, probablistic_scorer, solve_type,
                                                  prune_my_bad_picks, NoPick),
                                       recursion_depth, pick_option, product, 1,
                                       ConsolidatedResults(NoResult, NoResult, NoResult))} :
                fold_output' =
                    [err |-> IF others.err = "ok" /\ Len(product) = 0 THEN "AssertionError"
                             ELSE others.err,
                     recursion_depth |-> recursion_depth,
                     prune_my_bad_picks |-> prune_my_bad_picks,
                     pick_option |-> pick_option,
                     visited |-> others.visited,
                     pick_result |-> IF others.err = "ok" /\ Len(product) > 0
                                     THEN [others.pick_result EXCEPT
                                              !.average = ResultDiv(@, Len(product))]
                                     ELSE others.pick_result]
    /\ UNCHANGED node_output
    /\ UNCHANGED picks_vars
    /\ UNCHANGED rank_vars
    /\ UNCHANGED solve_vars
    /\ UNCHANGED score_vars
    /\ UNCHANGED odds_vars
    /\ UNCHANGED compare_vars
    /\ UNCHANGED more_vars

\* _solve_recursive on the node at recursion_depth; the outermost call iterates
\* my_pick_options from any one of them on
CallSolveNode ==
    /\ fold_output = NoState
    /\ node_output = NoState
    /\ \E recursion_depth \in 0..1 :
       \E prune_my_bad_picks \in BOOLEAN :
       \E first \in NodeOptions(solve_input, prune_my_bad_picks) :
       \E minimal_player_state \in {from_player_state(solve_input)} :
       \E probablistic_scorer \in {ProbablisticScorer(solve_input)} :
          /\ minimal_player_state.err = "ok"
          /\ probablistic_scorer.err = "ok"
          \* solve_recursive makes the outermost call after its early returns only
          /\ recursion_depth = 0 => ~solve_recursive_early(solve_input).done
          /\ recursion_depth > 0 =>
                first = SetToSeq(NodeOptions(solve_input, prune_my_bad_picks))[1]
          /\ \E r \in {_solve_recursive(minimal_player_state.state,
                                        SearchArgs(solve_input, probablistic_scorer, solve_type,
                                                   prune_my_bad_picks, first),
                                        recursion_depth)} :
                node_output' = [err |-> r.err,
                                recursion_depth |-> recursion_depth,
                                prune_my_bad_picks |-> prune_my_bad_picks,
                                first |-> first,
                                pick |-> r.pick,
                                result |-> r.result,
                                visited |-> r.visited]
    /\ UNCHANGED fold_output
    /\ UNCHANGED picks_vars
    /\ UNCHANGED rank_vars
    /\ UNCHANGED solve_vars
    /\ UNCHANGED score_vars
    /\ UNCHANGED odds_vars
    /\ UNCHANGED compare_vars
    /\ UNCHANGED more_vars

NextSearch ==
    \/ CallPickOption
    \/ CallSolveNode

SpecSearch == InitSearch /\ [][NextSearch]_vars

----------------------------------------------------------------------------
(* Specification SpecPrune: solve_recursive up to its call of                  *)
(* _solve_recursive, on PlayerStates of 2..MaxPrunePlayers players with hands *)
(* of 1..MaxPruneHandLen cards                                                 *)

MaxPrunePlayers == 5
MaxPruneHandLen == 7

InitPrune ==
    /\ \E num_players \in 2..MaxPrunePlayers :
       \E n \in 1..MaxPruneHandLen :
       \E own_hand \in SortedHands({Sashimi, Pudding}, n) :
       \E known \in BOOLEAN, behind \in BOOLEAN :
       \E own_played \in SearchOwnPlayed :
          \* the other hands are unseen until they have come round
          /\ ~known => Len(own_played) < num_players - 1
          /\ solve_input = MakePlayerState(num_players, own_hand,
                                           [i \in 1..(num_players - 1) |->
                                               [k \in 1..n |-> Dumpling]],
                                           known, own_played, NumRounds - 1, behind, 0)
    /\ solve_type \in ConsolidationTypes
    /\ solve_output = NotSolved
    /\ turn_output = NotPlayed
    /\ parent_state = NoState
    /\ child_state = NoState
    /\ leaf_output = NoState
    /\ prune_output = NoState
    /\ PicksIdle
    /\ RankIdle
    /\ ScoreIdle
    /\ OddsIdle
    /\ SearchIdle
    /\ CompareIdle
    /\ WalkIdle
    /\ KnowIdle
    /\ PlateIdle
    /\ ExpectIdle
    /\ PairIdle

\* solve_recursive(player_state, consolidation_type) up to the call of _solve_recursive
CallSolveRecursiveArguments ==
    /\ prune_output = NoState
    /\ prune_output' = solve_recursive_arguments(solve_input)
    /\ UNCHANGED picks_vars
    /\ UNCHANGED rank_vars
    /\ UNCHANGED solve_vars
    /\ UNCHANGED score_vars
    /\ UNCHANGED odds_vars
    /\ UNCHANGED search_vars
    /\ UNCHANGED compare_vars
    /\ UNCHANGED walk_vars
    /\ UNCHANGED know_vars
    /\ UNCHANGED plate_vars
    /\ UNCHANGED expect_vars
    /\ UNCHANGED pair_vars

NextPrune == CallSolveRecursiveArguments

SpecPrune == InitPrune /\ [][NextPrune]_vars

----------------------------------------------------------------------------
(* Specification SpecWalk: the nodes of the search of _solve_recursive, walked *)
(* from the root one copy_with_played_cards at a time, and what the call      *)
(* returns at a node                                                           *)

MaxWalkHandLen == 10
MaxWalkSearchLen == 3
MaxWalkCards == 6

WalkOwnCards == {SquidNigiri, Wasabi, Chopsticks}

WalkOtherCards == {Dumpling, Maki3, Chopsticks}

\* the hands of the roots: the number of players, the acting player's hand, the
\* other hands, and whether a Chopsticks may lie on a plate.  Beyond MaxWalkCards
\* cards in all every player holds one kind of card and no plate a Chopsticks.
WalkHands ==
    {deal \in UNION {{num_players} \X SortedHands(WalkOwnCards, n)
                        \X [1..(num_players - 1) -> SortedHands(WalkOtherCards, n)]
                        \X SearchOwnPlayed :
                        num_players \in 2..MaxSearchPlayers,
                        n \in 2..(MaxWalkCards \div 2)} :
        deal[1] * Len(deal[2]) <= MaxWalkCards}
    \cup {<<num_players, [k \in 1..n |-> Wasabi],
            [i \in 1..(num_players - 1) |-> [k \in 1..n |-> Dumpling]], <<>>>> :
              num_players \in 2..MaxSearchPlayers, n \in 2..MaxWalkHandLen}

InitWalk ==
    /\ \E deal \in WalkHands :
       \E prune_my_bad_picks \in BOOLEAN :
          /\ solve_input = MakePlayerState(deal[1], deal[2], deal[3], TRUE, deal[4],
                                           NumRounds - 1, FALSE, 0)
          /\ walk_root = [err |-> "ok", state |-> from_player_state(solve_input).state,
                          prune_my_bad_picks |-> prune_my_bad_picks]
          /\ walk_state = [err |-> "ok", state |-> from_player_state(solve_input).state,
                           recursion_depth |-> 0]
    /\ walk_picks = <<>>
    /\ walk_result = NoState
    /\ solve_type \in ConsolidationTypes
    /\ solve_output = NotSolved
    /\ turn_output = NotPlayed
    /\ parent_state = NoState
    /\ child_state = NoState
    /\ leaf_output = NoState
    /\ PicksIdle
    /\ RankIdle
    /\ ScoreIdle
    /\ OddsIdle
    /\ SearchIdle
    /\ CompareIdle
    /\ PruneIdle
    /\ KnowIdle
    /\ PlateIdle
    /\ ExpectIdle
    /\ PairIdle

\* the joint choices _solve_recursive recurses on at the node player_state: own
\* candidate first
WalkChoices(player_state, prune_my_bad_picks) ==
    LET found(all) == IF all.err = "ok" THEN all.picks ELSE {}
    IN  Product([i \in DOMAIN player_state.hands |->
                    found(get_all_picks(player_state.hands[i], player_state.plates[i],
                                        IF i = 1 THEN prune_my_bad_picks ELSE TRUE))])

\* "next_player_state = player_state.copy_with_played_cards(pick_option,
\* *other_player_option)" and the call of _solve_recursive at recursion_depth + 1, up
\* to its first lines
WalkStep ==
    /\ walk_state.err = "ok"
    /\ walk_result = NoState
    /\ walk_state.recursion_depth < MaxRecursionDepth
    /\ Len(walk_state.state.hands[1]) > 1
    /\ \E picks \in WalkChoices(walk_state.state, walk_root.prune_my_bad_picks) :
       \E r \in {copy_with_played_cards(walk_state.state, picks)} :
          /\ walk_state' = [err |-> r.err, state |-> r.ret,
                            recursion_depth |-> NextDepth(walk_state.recursion_depth)]
          /\ walk_picks' = Append(walk_picks, picks)
    /\ UNCHANGED <<walk_root, walk_result>>
    /\ UNCHANGED picks_vars
    /\ UNCHANGED rank_vars
    /\ UNCHANGED solve_vars
    /\ UNCHANGED score_vars
    /\ UNCHANGED odds_vars
    /\ UNCHANGED search_vars
    /\ UNCHANGED compare_vars
    /\ UNCHANGED prune_vars
    /\ UNCHANGED know_vars
    /\ UNCHANGED plate_vars
    /\ UNCHANGED expect_vars
    /\ UNCHANGED pair_vars

\* _solve_recursive at the node, where the node is a leaf, fails one of the first
\* checks, or has a hand of at most MaxWalkSearchLen cards
WalkReturn ==
    /\ walk_state.err = "ok"
    /\ walk_result = NoState
    /\ \/ walk_state.recursion_depth >= MaxRecursionDepth
       \/ Len(walk_state.state.hands[1]) <= MaxWalkSearchLen
    /\ \E probablistic_scorer \in {ProbablisticScorer(solve_input)} :
       \E first \in {NoPick} \cup
                    (IF walk_state.recursion_depth = 0 /\ Len(walk_state.state.hands[1]) > 1
                     THEN {picks[1] : picks \in WalkChoices(walk_state.state,
                                                           walk_root.prune_my_bad_picks)}
                     ELSE {}) :
          /\ probablistic_scorer.err = "ok"
          /\ first = NoPick <=> (walk_state.recursion_depth > 0
                                  \/ Len(walk_state.state.hands[1]) <= 1)
          /\ \E r \in {_solve_recursive(walk_state.state,
                                        SearchArgs(solve_input, probablistic_scorer, solve_type,
                                                   walk_root.prune_my_bad_picks, first),
                                        walk_state.recursion_depth)} :
                /\ walk_result' = [err |-> r.err, pick |-> r.pick, result |-> r.result]
                /\ walk_state' = [walk_state EXCEPT !.state = r.self]
    /\ UNCHANGED <<walk_root, walk_picks>>
    /\ UNCHANGED picks_vars
    /\ UNCHANGED rank_vars
    /\ UNCHANGED solve_vars
    /\ UNCHANGED score_vars
    /\ UNCHANGED odds_vars
    /\ UNCHANGED search_vars
    /\ UNCHANGED compare_vars
    /\ UNCHANGED prune_vars
    /\ UNCHANGED know_vars
    /\ UNCHANGED plate_vars
    /\ UNCHANGED expect_vars
    /\ UNCHANGED pair_vars

NextWalk ==
    \/ WalkStep
    \/ WalkReturn

SpecWalk == InitWalk /\ [][NextWalk]_vars

----------------------------------------------------------------------------
(* player.py: PlayerState, what it knows of the hands and of the deck *)

\* sort_cards: sorted(list(cards))
RECURSIVE sort_cards(_)
sort_cards(cards) ==
    IF Len(cards) = 0 THEN <<>>
    ELSE LET k == CHOOSE i \in DOMAIN cards :
                      /\ \A j \in DOMAIN cards : cards[i] <= cards[j]
                      /\ \A j \in 1..(i - 1) : cards[j] # cards[i]
         IN  <<cards[k]>> \o sort_cards([j \in 1..(Len(cards) - 1) |->
                                            IF j < k THEN cards[j] ELSE cards[j + 1]])

\* remove() without the decrement of num_unseen_dealt_cards
DeckRemove_keep_unseen(player_state, card, num, previously_unseen) ==
    IF card = Unknown THEN [err |-> "ok", player_state |-> player_state]
    ELSE IF player_state.deck_dist[card] < num
    THEN [err |-> "AssertionError", player_state |-> player_state]
    ELSE IF previously_unseen /\ player_state.num_unseen_dealt_cards < num
    THEN [err |-> "AssertionError", player_state |-> player_state]
    ELSE [err |-> "ok", player_state |-> [player_state EXCEPT !.deck_dist[card] = @ - num]]

\* remove(card, num) of PlayerState.update_deck_dist: [err, player_state]
DeckRemove(player_state, card, num, previously_unseen) ==
    IF card = Unknown THEN [err |-> "ok", player_state |-> player_state]
    ELSE IF player_state.deck_dist[card] < num
    THEN [err |-> "AssertionError", player_state |-> player_state]
    ELSE IF previously_unseen /\ player_state.num_unseen_dealt_cards < num
    THEN [err |-> "AssertionError", player_state |-> player_state]
    ELSE [err |-> "ok",
          player_state |->
              [player_state EXCEPT
                  !.deck_dist[card] = @ - num,
                  !.num_unseen_dealt_cards = IF previously_unseen THEN @ - num ELSE @]]

\* PlayerState.update_deck_dist(card): one Card
update_deck_dist_card(player_state, card, previously_unseen) ==
    DeckRemove(player_state, card, 1, previously_unseen)

\* the loop "for card_to_remove in cards_to_remove", from the k-th card on
RECURSIVE DeckRemoveEach(_, _, _, _)
DeckRemoveEach(player_state, cards_to_remove, k, previously_unseen) ==
    IF k > Len(cards_to_remove) THEN [err |-> "ok", player_state |-> player_state]
    ELSE LET next(r) ==
                 IF r.err # "ok" THEN r
                 ELSE DeckRemoveEach(r.player_state, cards_to_remove, k + 1, previously_unseen)
         IN  next(DeckRemove(player_state, cards_to_remove[k], 1, previously_unseen))

\* PlayerState.update_deck_dist(cards): an iterable of Cards
update_deck_dist_cards(player_state, cards_to_remove, previously_unseen) ==
    IF previously_unseen /\ Len(cards_to_remove) > player_state.num_unseen_dealt_cards
    THEN [err |-> "AssertionError", player_state |-> player_state]
    ELSE DeckRemoveEach(player_state, cards_to_remove, 1, previously_unseen)

\* PlayerState.update_deck_dist(counter): a Counter, here the sequence of its items
\* <<card, count>> in the order of the Counter, from the k-th item on
RECURSIVE update_deck_dist_counter(_, _, _, _)
update_deck_dist_counter(player_state, items, k, previously_unseen) ==
    IF k > Len(items) THEN [err |-> "ok", player_state |-> player_state]
    ELSE LET next(r) ==
                 IF r.err # "ok" THEN r
                 ELSE update_deck_dist_counter(r.player_state, items, k + 1, previously_unseen)
         IN  next(DeckRemove(player_state, items[k][1], items[k][2], previously_unseen))

\* the loop of init_round over other_player_hands when the hands are shown, from the
\* k-th hand on
RECURSIVE SeeOtherHands(_, _, _)
SeeOtherHands(player_state, other_player_hands, k) ==
    IF k > Len(other_player_hands) THEN [err |-> "ok", player_state |-> player_state]
    ELSE IF Unknown \in Range(other_player_hands[k])
    THEN [err |-> "AssertionError", player_state |-> player_state]
    ELSE LET next(r) ==
                 IF r.err # "ok" THEN r
                 ELSE SeeOtherHands(r.player_state, other_player_hands, k + 1)
         IN  next(update_deck_dist_cards(player_state, other_player_hands[k], FALSE))

\* PlayerState.init_round: [err, player_state].  other_player_hands is <<>> when
\* the argument is None.
PlayerState_init_round(self, hnd, other_player_public_states, other_player_hands) ==
    LET show_hands == self.common_game_state.show_hands
        sorted_hand == sort_cards(hnd)
        others == IF show_hands
                  THEN [i \in DOMAIN other_player_hands |-> sort_cards(other_player_hands[i])]
                  ELSE [i \in DOMAIN other_player_public_states |->
                           [k \in DOMAIN sorted_hand |-> Unknown]]
        seated == [self EXCEPT !.public_states = <<self.public_states[1]>>
                                                    \o other_player_public_states,
                               !.hands = <<sorted_hand>> \o others,
                               !.num_unseen_dealt_cards = 0]
        shown(r) ==
            IF r.err # "ok" THEN r
            ELSE IF show_hands THEN SeeOtherHands(r.player_state, others, 1)
            ELSE [err |-> "ok",
                  player_state |->
                      [r.player_state EXCEPT
                          !.num_unseen_dealt_cards = @ + Len(sorted_hand) * Len(others)]]
    IN  IF show_hands /\ Len(other_player_hands) = 0
        THEN [err |-> "ValueError", player_state |-> self]
        ELSE IF ~show_hands /\ Len(other_player_hands) # 0
        THEN [err |-> "ValueError", player_state |-> self]
        ELSE shown(update_deck_dist_cards(seated, sorted_hand, FALSE))

\* PlayerState.end_round
PlayerState_end_round(self, round_score) ==
    [self EXCEPT !.public_states[1].total_score = @ + round_score,
                 !.public_states[1].plate = EmptyPlate,
                 !.public_states[1].play_history = <<>>]

\* the loops of _observe_other_player_plays: the k-th card of the last play of the
\* player at seat on, then the seats after it
RECURSIVE ObservePlays(_, _, _)
ObservePlays(self, seat, k) ==
    IF seat > Len(self.public_states) THEN [err |-> "ok", player_state |-> self]
    ELSE IF Len(self.public_states[seat].play_history) = 0
    THEN [err |-> "IndexError", player_state |-> self]
    ELSE LET last_play == self.public_states[seat].play_history[
                              Len(self.public_states[seat].play_history)]
             hnd == self.hands[seat]
             seen(r) ==
                 IF r.err # "ok" THEN r
                 ELSE ObservePlays([r.player_state EXCEPT !.hands[seat] = ListRemove(@, Unknown)],
                                   seat, k + 1)
         IN  IF k > Len(last_play)
             THEN ObservePlays(IF Len(last_play) > 1
                               THEN [self EXCEPT !.hands[seat] = Append(@, Chopsticks)]
                               ELSE self,
                               seat + 1, 1)
             ELSE IF last_play[k] \in Range(hnd)
             THEN ObservePlays([self EXCEPT !.hands[seat] = ListRemove(@, last_play[k])],
                               seat, k + 1)
             ELSE IF Unknown \in Range(hnd)
             THEN seen(update_deck_dist_card(self, last_play[k], TRUE))
             ELSE [err |-> "AssertionError", player_state |-> self]

\* PlayerState._observe_other_player_plays: [err, player_state]
_observe_other_player_plays(self) ==
    IF Len(self.public_states) <= 1 THEN [err |-> "AssertionError", player_state |-> self]
    ELSE ObservePlays(self, 2, 1)

\* the positions of the first occurrence of every card of cards, in order
FirstOccurrences(cards) ==
    SelectSeq([i \in DOMAIN cards |-> i], LAMBDA i : \A j \in 1..(i - 1) : cards[j] # cards[i])

\* "hand_after_seeing - hand_before_seeing" with Card.Unknown popped from
\* hand_before_seeing: the items of the Counter with a positive count, in the order
\* of hand_after_seeing
CounterDifference(new_hand, old_hand) ==
    LET firsts == FirstOccurrences(new_hand)
        all == [i \in DOMAIN firsts |->
                   <<new_hand[firsts[i]],
                     count_card(new_hand, new_hand[firsts[i]])
                       - (IF new_hand[firsts[i]] = Unknown THEN 0
                          ELSE count_card(old_hand, new_hand[firsts[i]]))>>]
    IN  SelectSeq(all, LAMBDA item : item[2] > 0)

\* Counter(a) == Counter(b)
SameCounter(a, b) == \A c \in Range(a) \cup Range(b) : count_card(a, c) = count_card(b, c)

\* PlayerState._observe_new_hand: [err, player_state]
_observe_new_hand(self, old_hand, new_hand) ==
    IF Len(new_hand) # Len(old_hand) THEN [err |-> "AssertionError", player_state |-> self]
    ELSE IF Unknown \in Range(old_hand)
    THEN LET newly_seen_cards == CounterDifference(new_hand, old_hand)
         IN  IF \E i \in DOMAIN newly_seen_cards : newly_seen_cards[i][1] = Unknown
             THEN [err |-> "AssertionError", player_state |-> self]
             ELSE update_deck_dist_counter(self, newly_seen_cards, 1, TRUE)
    ELSE IF ~SameCounter(old_hand, new_hand)
    THEN [err |-> "AssertionError", player_state |-> self]
    ELSE [err |-> "ok", player_state |-> self]

\* PlayerState.pass_hands: [err, player_state]
pass_hands(self, new_hand) ==
    LET received(r) ==
            IF r.err # "ok" THEN r
            ELSE [err |-> "ok", player_state |-> [r.player_state EXCEPT !.hands[1] = new_hand]]
        rotated(r) ==
            IF r.err # "ok" THEN r
            ELSE LET turned == [r.player_state EXCEPT !.hands = Rotate1(@)]
                 IN  received(_observe_new_hand(turned, turned.hands[1], new_hand))
    IN  IF Unknown \in Range(new_hand) THEN [err |-> "AssertionError", player_state |-> self]
        ELSE rotated(_observe_other_player_plays(self))

----------------------------------------------------------------------------
(* One PlayerState through the rounds of a game: the hands it tracks beside   *)
(* the hands the players hold (specification SpecPlayer).  Seat 1 is the      *)
(* PlayerState's own player, seat i + 1 the player its hand is passed to.     *)

MaxKnowPlayers == 3
MaxKnowHandLen == 3
MaxKnowCards == 6
MaxKnowLongPlayers == 4
MaxKnowLongHandLen == 4
KnowDeckCount == 4

\* the cards of the deck
KnowCards == {SquidNigiri, Dumpling, Chopsticks}

\* CommonGameState.starting_deck_distribution
KnowDeck == [c \in Cards |-> IF c \in KnowCards THEN KnowDeckCount ELSE 0]

\* PublicPlayerState(name)
NewPublicPlayerState ==
    [plate |-> EmptyPlate, play_history |-> <<>>, total_score |-> 0, num_pudding |-> 0]

\* PlayerState.__init__
NewPlayerState(common_game_state) ==
    [common_game_state |-> common_game_state,
     public_states |-> <<NewPublicPlayerState>>,
     deck_dist |-> common_game_state.starting_deck_distribution,
     num_unseen_dealt_cards |-> 0,
     hands |-> <<>>]

\* the hands a deck can deal to num_players players, n cards each
Deals(deck, num_players, n) ==
    {hands \in [1..num_players -> SortedHands(KnowCards, n)] :
        \A c \in KnowCards :
            SeqSum([i \in 1..num_players |-> count_card(hands[i], c)]) <= deck[c]}

\* a longer round at a larger table: every player is dealt one Chopsticks and
\* Dumplings, from a deck of these
KnowLongDeck ==
    [c \in Cards |-> IF c = Chopsticks THEN MaxKnowLongPlayers
                     ELSE IF c = Dumpling THEN MaxKnowLongPlayers * (MaxKnowLongHandLen - 1)
                     ELSE 0]

KnowLongHand == sort_cards([k \in 1..MaxKnowLongHandLen |-> IF k = 1 THEN Chopsticks ELSE Dumpling])

\* the deck and the hands of the first round
KnowFirstDeals ==
    {<<KnowDeck, hands>> :
        hands \in {h \in UNION {Deals(KnowDeck, num_players, n) :
                                   num_players \in 2..MaxKnowPlayers, n \in 1..MaxKnowHandLen} :
                      Len(h) * Len(h[1]) <= MaxKnowCards}}
    \cup {<<KnowLongDeck, [i \in 1..MaxKnowLongPlayers |-> KnowLongHand]>>}

\* the deck without the cards of the hands
DeckWithout(deck, hands) ==
    [c \in Cards |-> deck[c] - SeqSum([i \in DOMAIN hands |-> count_card(hands[i], c)])]

\* the Picks a player may play from hnd with plt in front of it
ValidPicks(hnd, plt) ==
    {Pick1(hnd[i]) : i \in DOMAIN hnd}
    \cup (IF plt.chopsticks > 0 /\ Len(hnd) >= 2
          THEN {Pick2(hnd[k[1]], hnd[k[2]]) : k \in {p \in (DOMAIN hnd) \X (DOMAIN hnd) : p[1] # p[2]}}
          ELSE {})

\* the turn of the player at one seat, by its own PlayerState: [err, public_state, hand]
SeatPlays(public_state, hnd, pick) ==
    LET played(r) == [err |-> r.err,
                      public_state |-> r.player_state.public_states[1],
                      hand |-> r.player_state.hands[1]]
    IN  played(play_turn([public_states |-> <<public_state>>, hands |-> <<hnd>>], pick))

\* one turn: the player of self plays picks[1] by play_turn, the player at every other
\* seat i plays picks[i] by the play_turn of its own PlayerState, which shares its
\* PublicPlayerState with self: [err, player_state, hands]
TurnPlayed(self, hands, picks) ==
    LET seats == DOMAIN hands
        own == play_turn(self, picks[1])
        other == [i \in seats |-> SeatPlays(self.public_states[i], hands[i], picks[i])]
    IN  [err |-> IF own.err # "ok" THEN own.err
                 ELSE IF \E i \in seats : other[i].err # "ok" THEN "ValueError"
                 ELSE "ok",
         player_state |->
             [own.player_state EXCEPT
                 !.public_states = [i \in seats |-> IF i = 1 THEN @[1] ELSE other[i].public_state]],
         hands |-> [i \in seats |-> other[i].hand]]

\* the hands go round: every player hands its cards to the next seat, and self is told
\* the hand that reaches its player by pass_hands: [err, player_state, hands]
TurnPassed(self, hands) ==
    LET passed(r) == [err |-> r.err, player_state |-> r.player_state, hands |-> Rotate1(hands)]
    IN  passed(pass_hands(self, hands[Len(hands)]))

\* a round is dealt to self: init_round of player.py for one PlayerState
DealRound(self, hands) ==
    PlayerState_init_round(self, hands[1],
                           [i \in 1..(Len(hands) - 1) |-> NewPublicPlayerState],
                           IF self.common_game_state.show_hands
                           THEN [i \in 1..(Len(hands) - 1) |-> hands[i + 1]]
                           ELSE <<>>)

InitPlayer ==
    /\ \E deal \in KnowFirstDeals : \E show_hands \in BOOLEAN :
       \E deck \in {deal[1]}, hands \in {deal[2]} :
          /\ know_state = DealRound(NewPlayerState([deck_count |-> SeqSum([c \in Cards |-> deck[c]]),
                                                    starting_deck_distribution |-> deck,
                                                    num_players |-> Len(hands),
                                                    num_rounds |-> NumRounds,
                                                    round_idx |-> 0,
                                                    num_cards_per_player_per_round |-> Len(hands[1]),
                                                    show_hands |-> show_hands]),
                                    hands)
          /\ know_hands = hands
          /\ know_deck = DeckWithout(deck, hands)
    /\ know_phase = "dealt"
    /\ PicksIdle
    /\ RankIdle
    /\ SolveIdle
    /\ ScoreIdle
    /\ OddsIdle
    /\ SearchIdle
    /\ CompareIdle
    /\ PruneIdle
    /\ WalkIdle
    /\ PlateIdle
    /\ ExpectIdle
    /\ PairIdle

\* every player plays a Pick of its hand
CallPlayersTurn ==
    /\ know_state.err = "ok"
    /\ know_phase \in {"dealt", "passed"}
    /\ Len(know_hands[1]) > 0
    /\ \E picks \in Product([i \in DOMAIN know_hands |->
                               ValidPicks(know_hands[i], know_state.player_state.public_states[i].plate)]) :
       \E r \in {TurnPlayed(know_state.player_state, know_hands, picks)} :
          /\ know_state' = [err |-> r.err, player_state |-> r.player_state]
          /\ know_hands' = r.hands
    /\ know_phase' = "played"
    /\ UNCHANGED know_deck
    /\ UNCHANGED <<picks_vars, rank_vars, solve_vars, score_vars, odds_vars, search_vars,
                   compare_vars, prune_vars, walk_vars>>
    /\ UNCHANGED plate_vars
    /\ UNCHANGED expect_vars
    /\ UNCHANGED pair_vars

\* the hands are passed
CallPassHands ==
    /\ know_state.err = "ok"
    /\ know_phase = "played"
    /\ \E r \in {TurnPassed(know_state.player_state, know_hands)} :
          /\ know_state' = [err |-> r.err, player_state |-> r.player_state]
          /\ know_hands' = r.hands
    /\ know_phase' = "passed"
    /\ UNCHANGED know_deck
    /\ UNCHANGED <<picks_vars, rank_vars, solve_vars, score_vars, odds_vars, search_vars,
                   compare_vars, prune_vars, walk_vars>>
    /\ UNCHANGED plate_vars
    /\ UNCHANGED expect_vars
    /\ UNCHANGED pair_vars

\* the round is over: end_round, and init_round with the hands of the next round
CallInitRound ==
    /\ know_state.err = "ok"
    /\ know_phase = "passed"
    /\ Len(know_hands[1]) = 0
    /\ know_state.player_state.common_game_state.round_idx < NumRounds - 1
    \* the deck holds the cards of another round
    /\ SeqSum([c \in Cards |-> know_deck[c]])
          >= Len(know_hands)
               * know_state.player_state.common_game_state.num_cards_per_player_per_round
    /\ \E hands \in Deals(know_deck, Len(know_hands),
                          know_state.player_state.common_game_state.num_cards_per_player_per_round) :
          /\ know_state' = DealRound([PlayerState_end_round(know_state.player_state, 0) EXCEPT
                                         !.common_game_state.round_idx = @ + 1],
                                     hands)
          /\ know_hands' = hands
          /\ know_deck' = DeckWithout(know_deck, hands)
    /\ know_phase' = "dealt"
    /\ UNCHANGED <<picks_vars, rank_vars, solve_vars, score_vars, odds_vars, search_vars,
                   compare_vars, prune_vars, walk_vars>>
    /\ UNCHANGED plate_vars
    /\ UNCHANGED expect_vars
    /\ UNCHANGED pair_vars

NextPlayer == CallPlayersTurn \/ CallPassHands \/ CallInitRound

SpecPlayer == InitPlayer /\ [][NextPlayer]_vars

----------------------------------------------------------------------------
(* Specification SpecPlate: Picks played one after the other on a Plate that *)
(* starts empty, and the play_history they make                              *)

MaxPlateLen == 6
MaxPlateKinds == 2

\* the cards of one game: Chopsticks and MaxPlateKinds kinds more, or Chopsticks,
\* Wasabi and two Nigiri
PlateKinds ==
    {kinds \cup {Chopsticks} : kinds \in {k \in SUBSET (Cards \ {Chopsticks}) :
                                             Cardinality(k) \in 1..MaxPlateKinds}}
    \cup {{Wasabi, Chopsticks, a, b} : a, b \in {EggNigiri, SalmonNigiri, SquidNigiri}}

\* the cards of a play_history, in the order played
CardsPlayed(play_history) ==
    IF Len(play_history) = 0 THEN <<>>
    ELSE LET concat[k \in 0..Len(play_history)] ==
                 IF k = 0 THEN <<>> ELSE concat[k - 1] \o play_history[k]
         IN  concat[Len(play_history)]

InitPlate ==
    /\ check_kinds \in PlateKinds
    /\ check_history = <<>>
    /\ check_plate = [err |-> "ok", plate |-> EmptyPlate]
    /\ PicksIdle
    /\ RankIdle
    /\ SolveIdle
    /\ ScoreIdle
    /\ OddsIdle
    /\ SearchIdle
    /\ CompareIdle
    /\ PruneIdle
    /\ WalkIdle
    /\ KnowIdle
    /\ ExpectIdle
    /\ PairIdle

\* Plate.play(pick), the Pick added to play_history
CallPlatePlay ==
    /\ check_plate.err = "ok"
    /\ \E pick \in {Pick1(a) : a \in check_kinds}
                   \cup (IF check_plate.plate.chopsticks > 0
                         THEN {Pick2(a, b) : a, b \in check_kinds}
                         ELSE {}) :
          /\ Len(CardsPlayed(check_history)) + Len(pick) <= MaxPlateLen
          /\ check_plate' = Plate_play(check_plate.plate, pick)
          /\ check_history' = Append(check_history, pick)
    /\ UNCHANGED check_kinds
    /\ UNCHANGED <<picks_vars, rank_vars, solve_vars, score_vars, odds_vars, search_vars,
                   compare_vars, prune_vars, walk_vars, know_vars>>
    /\ UNCHANGED expect_vars
    /\ UNCHANGED pair_vars

NextPlate == CallPlatePlay

SpecPlate == InitPlate /\ [][NextPlate]_vars

----------------------------------------------------------------------------
(* Specification SpecExpect: end_of_round_score_puddings of the scorer of a   *)
(* PlayerState, on every list of pudding counts within bounds                *)

MaxExpectPlayers == 3
MaxExpectHandLen == 3
MaxExpectPudding == 2

InitExpect ==
    /\ \E num_players \in 2..MaxExpectPlayers :
       \E n \in 1..MaxExpectHandLen :
       \E round_idx \in 0..(NumRounds - 1) :
       \E unseen_pudding \in 0..MaxUnseenPudding :
       \E num_puddings \in [1..num_players -> 0..MaxExpectPudding] :
          expect_input =
              [player_state |->
                   MakePlayerState(num_players, [k \in 1..n |-> Tempura],
                                   [i \in 1..(num_players - 1) |-> [k \in 1..n |-> Dumpling]],
                                   TRUE, <<>>, round_idx, FALSE, unseen_pudding),
               num_puddings |-> num_puddings]
    /\ expect_output = NoExpectation
    /\ PicksIdle
    /\ RankIdle
    /\ SolveIdle
    /\ ScoreIdle
    /\ OddsIdle
    /\ SearchIdle
    /\ CompareIdle
    /\ PruneIdle
    /\ WalkIdle
    /\ KnowIdle
    /\ PlateIdle
    /\ PairIdle

\* ProbablisticScorer(player_state).end_of_round_score_puddings(num_puddings)
CallEndOfRoundScorePuddings ==
    /\ expect_output = NoExpectation
    /\ \E probablistic_scorer \in {ProbablisticScorer(expect_input.player_state)} :
          expect_output' =
              IF probablistic_scorer.err # "ok"
              THEN [err |-> probablistic_scorer.err, scores |-> <<>>]
              ELSE end_of_round_score_puddings(probablistic_scorer, expect_input.num_puddings)
    /\ UNCHANGED expect_input
    /\ UNCHANGED <<picks_vars, rank_vars, solve_vars, score_vars, odds_vars, search_vars,
                   compare_vars, prune_vars, walk_vars, know_vars, plate_vars>>
    /\ UNCHANGED pair_vars

NextExpect == CallEndOfRoundScorePuddings

SpecExpect == InitExpect /\ [][NextExpect]_vars

----------------------------------------------------------------------------
(* Specification SpecPick: the Picks of two cards in either order, beside a   *)
(* plate with some unused Wasabi                                             *)

MaxPickWasabi == 2

InitPick ==
    /\ pair_input \in [a : Cards, b : Cards, num_unused_wasabi : 0..MaxPickWasabi]
    /\ pair_output = NoState
    /\ PicksIdle
    /\ RankIdle
    /\ SolveIdle
    /\ ScoreIdle
    /\ OddsIdle
    /\ SearchIdle
    /\ CompareIdle
    /\ PruneIdle
    /\ WalkIdle
    /\ KnowIdle
    /\ PlateIdle
    /\ ExpectIdle

\* Pick(a, b) and Pick(b, a), compared, hashed and asked whether their order matters
CallPickBothOrders ==
    /\ pair_output = NoState
    /\ \E ab \in {Pick2(pair_input.a, pair_input.b)}, ba \in {Pick2(pair_input.b, pair_input.a)} :
       \E matters \in {Pick_order_matters(ab, pair_input.num_unused_wasabi)} :
          pair_output' = [err |-> matters.err,
                          ab |-> ab,
                          ba |-> ba,
                          eq |-> Pick_eq(ab, ba),
                          hash_eq |-> Pick_hash(ab) = Pick_hash(ba),
                          order_matters |-> matters.ret]
    /\ UNCHANGED pair_input
    /\ UNCHANGED <<picks_vars, rank_vars, solve_vars, score_vars, odds_vars, search_vars,
                   compare_vars, prune_vars, walk_vars, know_vars, plate_vars, expect_vars>>

NextPick == CallPickBothOrders

SpecPick == InitPick /\ [][NextPick]_vars

----------------------------------------------------------------------------
(* Properties of get_all_picks (specification Spec) *)

\* the cards of pick form a sub-multiset of the cards of hnd
SubMultiset(pick, hnd) ==
    \A c \in Range(pick) : count_card(pick, c) <= count_card(hnd, c)

Returned == options # NotCalled

\* C1: for every non-empty hand and every plate, pruning on or off, get_all_picks
\* returns a non-empty set of Picks of one or two cards; the cards of every Pick are
\* a sub-multiset of the hand; a 2-card Pick is returned only if plate.chopsticks > 0
\* and the hand has at least 2 cards.
C1_GetAllPicksLegal ==
    (Returned /\ Len(hand) >= 1) =>
        /\ options.err = "ok"
        /\ options.picks # {}
        /\ \A pick \in options.picks :
            /\ Len(pick) \in {1, 2}
            /\ SubMultiset(pick, hand)
            /\ Len(pick) = 2 => (plate.chopsticks > 0 /\ Len(hand) >= 2)

\* a hand with two copies of a card and a plate with chopsticks: the Pick with the
\* card twice is returned
C1_Witness ==
    /\ Returned
    /\ plate.chopsticks > 0
    /\ hand = <<Tempura, Dumpling, Tempura>>
    /\ Pick2(Tempura, Tempura) \in options.picks
    /\ Pick2(Dumpling, Dumpling) \notin options.picks

\* C9: for any hand (cards in any order) and a plate with at least one chopsticks,
\* (i) with zero unused Wasabi and a hand holding Wasabi and SquidNigiri, both
\* Pick(Wasabi, SquidNigiri) and Pick(SquidNigiri, Wasabi) are returned; (ii) with 2
\* or more unused Wasabi, for any two distinct Nigiri kinds in the hand exactly one
\* Pick containing them is returned.
C9_OrderSensitivity ==
    (Returned /\ plate.chopsticks >= 1) =>
        /\ (plate.unused_wasabi = 0 /\ {Wasabi, SquidNigiri} \subseteq Range(hand)) =>
              {<<Wasabi, SquidNigiri>>, <<SquidNigiri, Wasabi>>} \subseteq options.picks
        /\ plate.unused_wasabi >= 2 =>
              \A a, b \in Range(hand) :
                  (is_nigiri(a) /\ is_nigiri(b) /\ a # b) =>
                      Cardinality({pick \in options.picks : Range(pick) = {a, b}}) = 1

----------------------------------------------------------------------------
(* Properties of rank_players (specification SpecRank) *)

\* the key (total_score, num_pudding) of a is lexicographically greater than b's
KeyGreater(a, b) ==
    \/ a.total_score > b.total_score
    \/ a.total_score = b.total_score /\ a.num_pudding > b.num_pudding

\* C10: rank_players is standard competition ranking on (total_score, num_pudding):
\* for every non-empty list of players the call returns, each player's rank is 1 plus
\* the number of players with a strictly greater key, and some player has rank 1.
C10_CompetitionRanking ==
    rank_output # NoRanks =>
        /\ rank_output.err = "ok"
        /\ DOMAIN rank_output.ranks = DOMAIN rank_input
        /\ \A i \in DOMAIN rank_input :
              rank_output.ranks[i] =
                  1 + Cardinality({j \in DOMAIN rank_input :
                                      KeyGreater(rank_input[j], rank_input[i])})
        /\ \E i \in DOMAIN rank_input : rank_output.ranks[i] = 1

\* two players tied on both fields share rank 1 and the next rank is 3; two players
\* tied on score alone are ranked by pudding
C10_Witness ==
    /\ rank_output # NoRanks
    /\ rank_input = <<ScoreAndPudding(2, 1), ScoreAndPudding(2, 1), ScoreAndPudding(2, 0),
                      ScoreAndPudding(1, 1)>>
    /\ rank_output.ranks = <<1, 1, 3, 4>>

\* C11 as stated: rank_players on total scores [10,10,8] with pudding counts [2,1,0]
\* returns the ranks [1,1,3].
C11_RankExampleShared ==
    (rank_input = RankExample /\ rank_output # NoRanks) => rank_output.ranks = <<1, 1, 3>>

\* C11: rank_players on total scores [10,10,8] with pudding counts [2,1,0] returns
\* the ranks [1,2,3]: the two players level on score are ranked by their puddings.
C11_RankExample ==
    (rank_input = RankExample /\ rank_output # NoRanks) =>
        /\ rank_output.err = "ok"
        /\ rank_output.ranks = <<1, 2, 3>>

C11_Witness ==
    /\ rank_input = RankExample
    /\ rank_output # NoRanks
    /\ rank_output.ranks[2] = 2

----------------------------------------------------------------------------
(* Properties of score_maki and score_puddings (specification SpecScore) *)

\* how many players hold the count c
NumAt(counts, c) == Cardinality({i \in DOMAIN counts : counts[i] = c})

\* the counts below the highest
BelowTop(counts) == {counts[i] : i \in DOMAIN counts} \ {SetMax(Range(counts))}

\* the points the Maki rule gives the player i
MakiPoints(counts, i) ==
    LET top == SetMax(Range(counts))
    IN  IF top = 0 THEN 0
        ELSE IF counts[i] = top THEN 6 \div NumAt(counts, top)
        ELSE IF /\ NumAt(counts, top) = 1
                /\ counts[i] = SetMax(BelowTop(counts))
                /\ counts[i] # 0
        THEN 3 \div NumAt(counts, counts[i])
        ELSE 0

\* C12: for 2 or more players, score_maki gives every player with the highest
\* non-zero Maki total floor(6 / number of such players); if exactly one player holds
\* the highest total and the second-highest is non-zero, every player at the
\* second-highest gets floor(3 / number of them); everyone else gets 0, and nobody
\* scores when all totals are 0.  Maki totals [6,6,3] give [3,3,0].
C12_MakiScoring ==
    (maki_output # NoScores /\ Len(score_input) >= 2) =>
        /\ maki_output.err = "ok"
        /\ DOMAIN maki_output.scores = DOMAIN score_input
        /\ \A i \in DOMAIN score_input :
              maki_output.scores[i] = MakiPoints(score_input, i)
        /\ score_input = MakiExample => maki_output.scores = <<3, 3, 0>>

\* one player alone with the most Maki, two sharing the second place
C12_Witness ==
    /\ score_input = <<3, 2, 2, 0>>
    /\ maki_output # NoScores
    /\ maki_output.scores = <<6, 1, 1, 0>>

\* the Fraction q is the integer n
IsInteger(q, n) == q[2] # 0 /\ q[1] = n * q[2]

\* the points the Pudding rule of C13 gives the player i (counts not all equal)
PuddingPoints(counts, i) ==
    LET most == SetMax(Range(counts))
        fewest == SetMin(Range(counts))
    IN  IF counts[i] = most THEN 6 \div NumAt(counts, most)
        ELSE IF counts[i] = fewest
        THEN (IF Len(counts) = 2 THEN 0 ELSE -(6 \div NumAt(counts, fewest)))
        ELSE 0

\* C13: for 2 or more players whose pudding counts are not all equal, score_puddings
\* gives every player with the most puddings 6 divided by the number of such players
\* rounded down, every player with the fewest minus (6 divided by their number,
\* rounded down) - 0 in a 2-player game - and everyone else 0; every value returned
\* is an integer.
C13_PuddingScoring ==
    (/\ pudding_output # NoScores
     /\ Len(score_input) >= 2
     /\ Cardinality(Range(score_input)) > 1) =>
        /\ pudding_output.err = "ok"
        /\ \A i \in DOMAIN score_input :
              IsInteger(pudding_output.scores[i], PuddingPoints(score_input, i))

----------------------------------------------------------------------------
(* Properties of num_cards_odds_list and num_cards_odds_at_least              *)
(* (specification SpecOdds)                                                   *)

\* 0 <= K <= D and 0 <= N <= D
ValidOdds ==
    /\ odds_input.this_card_in_deck <= odds_input.cards_in_deck
    /\ odds_input.cards_dealing <= odds_input.cards_in_deck

\* C14: for 0 <= K <= D and 0 <= N <= D the Fractions of num_cards_odds_list(D, K, N)
\* sum to exactly 1 - they share the denominator C(D,N) and their numerators
\* C(K,n)*C(D-K,N-n), n = 0..min(K,N), sum to it - and each lies in [0,1].
C14_OddsListSumsToOne ==
    (odds_list_output # NoOdds /\ ValidOdds) =>
        LET odds == odds_list_output.odds
            D == odds_input.cards_in_deck
            K == odds_input.this_card_in_deck
            N == odds_input.cards_dealing
        IN  /\ odds_list_output.err = "ok"
            /\ Len(odds) >= 1
            /\ \A k \in DOMAIN odds :
                  /\ odds[k][2] = odds[1][2]
                  /\ odds[k][2] > 0
                  /\ 0 <= odds[k][1]
                  /\ odds[k][1] <= odds[k][2]
            /\ SeqSum([k \in DOMAIN odds |-> odds[k][1]]) = odds[1][2]
            /\ (K # 0 /\ N # 0) =>
                  /\ Len(odds) = Min2(K, N) + 1
                  /\ odds[1][2] = comb(D, N)
                  /\ \A k \in DOMAIN odds :
                        odds[k][1] = comb(K, k - 1) * comb(D - K, N - (k - 1))

\* a list of three Fractions, none of them 0 or 1
C14_Witness ==
    /\ odds_input.cards_in_deck = 5
    /\ odds_input.this_card_in_deck = 2
    /\ odds_input.cards_dealing = 3
    /\ odds_list_output # NoOdds
    /\ odds_list_output.odds = << <<1, 10>>, <<6, 10>>, <<3, 10>> >>

\* the hands of N cards out of D that hold at least n of the K cards
HandsAtLeast(D, K, N, n) ==
    SeqSum([k \in 1..(Min2(K, N) + 1 - n) |-> comb(K, n + k - 1) * comb(D - K, N - (n + k - 1))])

\* C15: for 0 <= K <= D, 0 <= N <= D and n >= 0, num_cards_odds_at_least(D, K, N, n)
\* returns without error the exact probability of drawing at least n of the K cards,
\* the sum over k >= n of num_cards_odds(D, K, N, k): 1 for n = 0, and 0 or 1 where
\* the event is impossible or certain.
C15_OddsAtLeastExact ==
    (odds_at_least_output # NoOdds /\ ValidOdds) =>
        LET D == odds_input.cards_in_deck
            K == odds_input.this_card_in_deck
            N == odds_input.cards_dealing
            n == odds_input.this_card_at_least
            odds == odds_at_least_output.odds
        IN  /\ odds_at_least_output.err = "ok"
            /\ odds[2] > 0
            /\ odds[1] * comb(D, N) = HandsAtLeast(D, K, N, n) * odds[2]
            /\ n = 0 => odds[1] = odds[2]

----------------------------------------------------------------------------
(* Properties of the solver (specification SpecSolve) *)

Solved == solve_output # NotSolved

\* the acting player's hand and plate
ActingHand == PlayerState_hand(solve_input)

ActingPlate == solve_input.public_states[1].plate

\* C2: every Pick solve_recursive returns for a fully-known state with a non-empty
\* own hand is playable on that state by PlayerState.play_turn: its cards are a
\* sub-multiset of the acting hand, it has two cards only if the acting plate holds
\* a chopsticks and the hand has at least 2 cards, and play_turn ends without error.
C2_ReturnedPickPlayable ==
    (Solved /\ solve_output.err = "ok" /\ ~any_unknown_cards(solve_input)) =>
        /\ Len(solve_output.pick) \in {1, 2}
        /\ SubMultiset(solve_output.pick, ActingHand)
        /\ Len(solve_output.pick) = 2 => (ActingPlate.chopsticks >= 1 /\ Len(ActingHand) >= 2)
        /\ turn_output # NotPlayed => turn_output.err = "ok"

\* a 2-card Pick found by a full search has been played: the two cards are on the
\* plate and the chopsticks is back in the hand
C2_Witness ==
    /\ solve_output.err = "ok"
    /\ Len(solve_output.pick) = 2
    /\ Len(ActingHand) = 3
    /\ ActingPlate.chopsticks = 1
    /\ turn_output.err = "ok"
    /\ PlayerState_hand(turn_output.player_state) = <<ActingHand[1], Chopsticks>>
    /\ turn_output.player_state.public_states[1].plate.chopsticks = 0

\* the endgame of C3: two players, the acting player holds [Sashimi, Sashimi] with
\* 2 Sashimi banked, the opponent holds Maki3 and Dumpling
SashimiEndgame ==
    /\ Len(solve_input.hands) = 2
    /\ solve_input.hands[1] = <<Sashimi, Sashimi>>
    /\ solve_input.hands[2] = <<Dumpling, Maki3>>
    /\ ActingPlate.unscored_sashimi = 2
    /\ ~any_unknown_cards(solve_input)

\* C3 as stated: in the endgame solve_recursive returns the single-card Pick Sashimi,
\* under every consolidation policy.
C3_SashimiEndgameSingle ==
    (Solved /\ SashimiEndgame) =>
        solve_output = [err |-> "ok", pick |-> Pick1(Sashimi)]

\* C3, amended: in the endgame solve_recursive returns the single-card Pick Sashimi
\* when the acting plate holds no chopsticks, and the two-card Pick (Sashimi, Sashimi)
\* when it holds one, under every consolidation policy.
C3_SashimiEndgame ==
    (Solved /\ SashimiEndgame) =>
        solve_output = [err |-> "ok",
                        pick |-> IF ActingPlate.chopsticks = 0 THEN Pick1(Sashimi)
                                 ELSE Pick2(Sashimi, Sashimi)]

C3_Witness ==
    /\ SashimiEndgame
    /\ ActingPlate.chopsticks = 0
    /\ solve_type = "worst"
    /\ solve_output = [err |-> "ok", pick |-> Pick1(Sashimi)]

\* C5: solve_recursive rejects with an error, and returns no Pick, every player state
\* with unknown cards, for every own hand of size >= 1.
C5_RejectsUnknownCards ==
    (Solved /\ any_unknown_cards(solve_input) /\ Len(ActingHand) >= 1) =>
        (solve_output.err # "ok" /\ solve_output.pick = NoPick)

\* C6: with an empty acting hand get_all_picks, _solve_recursive and solve_recursive
\* each raise; none returns a set of picks or a Pick.
C6_EmptyHandRaises ==
    Len(ActingHand) = 0 =>
        /\ options # NotCalled => (options.err = "AssertionError" /\ options.picks = {})
        /\ Solved => (solve_output.err = "ValueError" /\ solve_output.pick = NoPick)
        /\ (leaf_output # NoState /\ child_state = NoState) =>
              (leaf_output.err = "ValueError" /\ leaf_output.pick = NoPick)

\* _solve_recursive has raised on the empty hand, and get_all_picks after it
C6_Witness ==
    /\ Len(ActingHand) = 0
    /\ parent_state.err = "ok"
    /\ Len(parent_state.state.hands[1]) = 0
    /\ leaf_output # NoState
    /\ leaf_output.err = "ValueError"
    /\ options.err = "AssertionError"

C8_CopyIndependent ==
    [][/\ (child_state = NoState /\ child_state' # NoState) =>
            /\ parent_state' = parent_state
            /\ child_state'.err = "ValueError" <=>
                  \E i \in DOMAIN child_state'.picks :
                      ~SubMultiset(child_state'.picks[i], parent_state.state.hands[i])
       /\ (child_state # NoState /\ leaf_output = NoState /\ leaf_output' # NoState) =>
            parent_state' = parent_state]_vars

\* the snapshot has been scored by play_last_cards_and_score, which wrote the last
\* cards to its plates, and the input still holds its 2-card hands
C8_Witness ==
    /\ child_state # NoState
    /\ child_state.err = "ok"
    /\ leaf_output # NoState
    /\ leaf_output.err = "ok"
    /\ Len(parent_state.state.hands[1]) = 2
    /\ child_state.state.plates # parent_state.state.plates
    /\ child_state.state.total_scores # parent_state.state.total_scores

\* the chopsticks of a _MinimalPlayerState: those on the plates and the Chopsticks
\* cards in the hands
NumChopsticks(state) ==
    SeqSum([i \in DOMAIN state.plates |-> state.plates[i].chopsticks])
        + SeqSum([i \in DOMAIN state.hands |-> count_card(state.hands[i], Chopsticks)])

\* C16: copy_with_played_cards follows the rules of Plate.play on chopsticks: for
\* every seat and every legal pick the plate of the snapshot is the plate Plate.play
\* gives for that pick - a 2-card pick takes one chopsticks off the plate, and is
\* applied only where a chopsticks is available - so that the chopsticks on the plates
\* plus the Chopsticks cards in the hands stay as many as they were.
C16_CopyFollowsPlateRules ==
    (/\ child_state # NoState
     /\ child_state.err = "ok"
     /\ leaf_output = NoState
     /\ child_state.picks[1] \in get_all_picks(parent_state.state.hands[1],
                                               parent_state.state.plates[1], FALSE).picks) =>
        /\ \A i \in DOMAIN child_state.picks :
              /\ Plate_play(parent_state.state.plates[i], child_state.picks[i]).err = "ok"
              /\ child_state.state.plates[i]
                    = Plate_play(parent_state.state.plates[i], child_state.picks[i]).plate
        /\ NumChopsticks(child_state.state) = NumChopsticks(parent_state.state)

----------------------------------------------------------------------------
(* Properties of is_better_than (specification SpecCompare) *)

\* the Result the policy selects from a ConsolidatedResults
Selected(c, consolidation_type) ==
    IF consolidation_type = "best" THEN c.best
    ELSE IF consolidation_type = "worst" THEN c.worst
    ELSE c.average

\* the ordering key of C18: rank, differential, score in the final round;
\* differential, rank, score before
PhaseKey(r, is_last_round) ==
    IF is_last_round THEN <<r.neg_rank, r.score_differential, r.score_total>>
    ELSE <<r.score_differential, r.neg_rank, r.score_total>>

\* C18: under every consolidation policy is_better_than orders two candidates by the
\* policy-selected Result, with the keys rank, score differential, raw score in the
\* final round and score differential, rank, raw score in a non-final round.
C18_PhaseKeyOrdering ==
    compare_output # NoState =>
        (compare_output.better <=>
            TupleGreater(PhaseKey(Selected(compare_input.self, compare_input.consolidation_type),
                                  compare_input.last_round),
                         PhaseKey(Selected(compare_input.other, compare_input.consolidation_type),
                                  compare_input.last_round)))

----------------------------------------------------------------------------
(* Properties of the search (specification SpecSearch) *)

\* the candidates of the i-th other player at the node
OtherCandidates(i) ==
    get_all_picks(solve_input.hands[i + 1], solve_input.public_states[i + 1].plate, TRUE).picks

\* the joint choices of the other players at the node: one candidate of each
JointChoices ==
    {joint \in [1..(Len(solve_input.hands) - 1) ->
                   UNION {OtherCandidates(i) : i \in 1..(Len(solve_input.hands) - 1)}] :
        \A i \in DOMAIN joint : joint[i] \in OtherCandidates(i)}

\* the Result of the branch of pick_option and the joint choice joint, for the
\* call recorded in out
BranchResult(out, pick_option, joint) ==
    _solve_recursive(
        copy_with_played_cards(from_player_state(solve_input).state, <<pick_option>> \o joint).ret,
        SearchArgs(solve_input, ProbablisticScorer(solve_input), solve_type,
                   out.prune_my_bad_picks, NoPick),
        out.recursion_depth + 1).result

BranchesOf(out, pick_option) ==
    {BranchResult(out, pick_option, joint) : joint \in JointChoices}

\* the order of Results: by neg_rank, then score_differential, then score_total
Before(a, b) ==
    \/ a.neg_rank < b.neg_rank
    \/ a.neg_rank = b.neg_rank /\ a.score_differential < b.score_differential
    \/ /\ a.neg_rank = b.neg_rank
       /\ a.score_differential = b.score_differential
       /\ a.score_total < b.score_total

\* the Result made of the greatest (least) value of every field over branches
FieldwiseMax(branches) ==
    Result(SetMax({b.neg_rank : b \in branches}),
           SetMax({b.score_differential : b \in branches}),
           SetMax({b.score_total : b \in branches}))

FieldwiseMin(branches) ==
    Result(SetMin({b.neg_rank : b \in branches}),
           SetMin({b.score_differential : b \in branches}),
           SetMin({b.score_total : b \in branches}))

\* the greatest and the least of branches in the order of Results
IsGreatest(r, branches) == r \in branches /\ \A b \in branches : ~Before(r, b)

IsLeast(r, branches) == r \in branches /\ \A b \in branches : ~Before(b, r)

\* C17 as stated: after the joint choices of a candidate have been folded, best is
\* the field-by-field maximum and worst the field-by-field minimum of the branch
\* Results.
C17_PerFieldExtremes ==
    fold_output.err = "ok" =>
        LET matches(branches) ==
                /\ fold_output.pick_result.best = FieldwiseMax(branches)
                /\ fold_output.pick_result.worst = FieldwiseMin(branches)
        IN  matches(BranchesOf(fold_output, fold_output.pick_option))

\* C17: after the joint choices of a candidate have been folded, best is the
\* greatest and worst the least of the branch Results in the order of Results
\* (neg_rank, then score_differential, then score_total): each is the Result of one
\* branch.
C17_WholeResultExtremes ==
    fold_output.err = "ok" =>
        LET matches(branches) ==
                /\ IsGreatest(fold_output.pick_result.best, branches)
                /\ IsLeast(fold_output.pick_result.worst, branches)
        IN  matches(BranchesOf(fold_output, fold_output.pick_option))

\* a candidate folded from branches none of which attains the greatest value of
\* every field
C17_Witness ==
    /\ fold_output.err = "ok"
    /\ Len(fold_output.visited) >= 2
    /\ fold_output.pick_result.best # fold_output.pick_result.worst
    /\ LET missing(branches) == FieldwiseMax(branches) \notin branches
       IN  missing(BranchesOf(fold_output, fold_output.pick_option))

\* the candidates of the acting player at the node of the call recorded in out
NodeCandidates(out) == NodeOptions(solve_input, out.prune_my_bad_picks)

\* the outermost call with a single candidate
SingleRootOption(out) == out.recursion_depth = 0 /\ Cardinality(NodeCandidates(out)) = 1

\* visited holds every element of expected, each exactly once
VisitedOnce(visited, expected) ==
    Len(visited) = Cardinality(expected) /\ Range(visited) = expected

\* the branches of pick_option: the pairs of a joint choice and its Result
BranchTable(out, pick_option) ==
    {<<joint, BranchResult(out, pick_option, joint)>> : joint \in JointChoices}

\* the sum of field f (by position) of the Results of table
RECURSIVE FieldSum(_, _)
FieldSum(table, f) ==
    IF table = {} THEN 0
    ELSE LET branch == CHOOSE b \in table : TRUE
         IN  ResultTuple(branch[2])[f] + FieldSum(table \ {branch}, f)

\* mean is total / n to the resolution of the fixed point
IsMean(mean, total, n) == mean * n <= total /\ total < (mean + 1) * n

\* the ConsolidatedResults of a candidate, from the table of its branches
CandidateResults(table) ==
    LET branches == {branch[2] : branch \in table}
    IN  ConsolidatedResults(
            CHOOSE b \in branches : IsGreatest(b, branches),
            Result(FieldSum(table, 1) \div Cardinality(table),
                   FieldSum(table, 2) \div Cardinality(table),
                   FieldSum(table, 3) \div Cardinality(table)),
            CHOOSE b \in branches : IsLeast(b, branches))

\* one candidate: a recursion for every joint choice, and the average their mean
CandidateEnumerated ==
    fold_output.err = "ok" =>
        /\ VisitedOnce(fold_output.visited, JointChoices)
        /\ LET mean(table) ==
                   \A f \in 1..3 :
                       IsMean(ResultTuple(fold_output.pick_result.average)[f],
                              FieldSum(table, f), Cardinality(table))
           IN  mean(BranchTable(fold_output, fold_output.pick_option))

\* one node: a recursion for every candidate and joint choice, and the Result
\* returned the one the policy selects from the winning candidate
NodeEnumerated ==
    /\ VisitedOnce(node_output.visited, NodeCandidates(node_output) \X JointChoices)
    /\ node_output.pick \in NodeCandidates(node_output)
    /\ node_output.result
          = Selected(CandidateResults(BranchTable(node_output, node_output.pick)), solve_type)

\* C19 as stated: at every node with more than one card in hand, and for each own
\* candidate, the solver recurses exactly once for every joint choice of the
\* opponents; the candidate's average is the field-wise mean of the branch Results;
\* the Result the node returns is the best, worst or average Result of the winning
\* candidate according to the policy.
C19_EnumeratedAtEveryNode ==
    /\ CandidateEnumerated
    /\ node_output.err = "ok" => NodeEnumerated

\* C19: as above at every node but the outermost call with a single candidate, which
\* returns that candidate without recursing and without a Result.
C19_EnumeratedUnlessSingleRootOption ==
    /\ CandidateEnumerated
    /\ node_output.err = "ok" =>
          IF SingleRootOption(node_output)
          THEN /\ node_output.visited = <<>>
               /\ node_output.pick \in NodeCandidates(node_output)
               /\ node_output.result = NoResult
          ELSE NodeEnumerated

\* a node of three players searched under the average policy, with several
\* candidates and a cross product of four joint choices
C19_Witness ==
    /\ node_output.err = "ok"
    /\ solve_type = "average"
    /\ Len(solve_input.hands) = 3
    /\ Cardinality(NodeCandidates(node_output)) >= 2
    /\ Cardinality(JointChoices) = 4
    /\ Len(node_output.visited) = 4 * Cardinality(NodeCandidates(node_output))

\* the order in which the call recorded in out meets the candidates
Enumeration(out) ==
    IF out.recursion_depth = 0 THEN StartingAt(SetToSeq(NodeCandidates(out)), out.first)
    ELSE SetToSeq(NodeCandidates(out))

\* the candidates by position in the enumeration, each with its ConsolidatedResults
Ranked(out) ==
    {<<k, CandidateResults(BranchTable(out, Enumeration(out)[k]))>> :
        k \in DOMAIN Enumeration(out)}

\* a is strictly better than b under the policy and the round of the node
Better(a, b) == is_better_than(a, b, last_round(solve_input.common_game_state), solve_type)

\* C20: the Pick a node returns is a candidate that no candidate is strictly better
\* than under is_better_than, and that is strictly better than every candidate met
\* before it: the running best is replaced only by a strictly better candidate, and
\* among candidates that compare equal the first met is returned.
C20_FirstBestKept ==
    node_output.err = "ok" =>
        LET first_best(ranked) ==
                \E w \in ranked :
                    /\ Enumeration(node_output)[w[1]] = node_output.pick
                    /\ \A c \in ranked :
                          /\ ~Better(c[2], w[2])
                          /\ c[1] < w[1] => Better(w[2], c[2])
        IN  first_best(Ranked(node_output))

\* a node whose returned candidate compares equal to one met after it, in an
\* enumeration that does not start at the default
C20_Witness ==
    /\ node_output.err = "ok"
    /\ node_output.recursion_depth = 0
    /\ Enumeration(node_output) # SetToSeq(NodeCandidates(node_output))
    /\ LET tied(ranked) ==
               \E w \in ranked, c \in ranked :
                   /\ Enumeration(node_output)[w[1]] = node_output.pick
                   /\ c[1] > w[1]
                   /\ ~Better(w[2], c[2])
                   /\ ~Better(c[2], w[2])
       IN  tied(Ranked(node_output))

----------------------------------------------------------------------------
(* Properties of the arguments solve_recursive gives (specification SpecPrune) *)

\* factorial(hand_size) ^ num_players exceeds limit
RECURSIVE TreeSizeExceeds(_, _, _)
TreeSizeExceeds(hand_factorial, num_players, limit) ==
    IF num_players = 0 THEN limit < 1
    ELSE TreeSizeExceeds(hand_factorial, num_players - 1, limit \div hand_factorial)

HandFactorial == factorial(Len(PlayerState_hand(solve_input)))

Seated == Len(solve_input.public_states)

\* C21 as stated: the acting seat's candidates are pruned exactly when 3 or more
\* players are seated or factorial(hand_size) ^ num_players exceeds 2000.
C21_PrunedForThreeOrMore ==
    prune_output.err = "ok" /\ prune_output.called =>
        (prune_output.prune_my_bad_picks
            <=> (Seated >= 3 \/ TreeSizeExceeds(HandFactorial, Seated, 2000)))

\* C21: the acting seat's candidates are pruned exactly when fewer than 3 players
\* are seated or factorial(hand_size) ^ num_players exceeds 2000; with 3 or more
\* players and a tree size of at most 2000 they are not pruned.
C21_PrunedForTwoOrLargeTree ==
    prune_output.err = "ok" /\ prune_output.called =>
        (prune_output.prune_my_bad_picks
            <=> (Seated < 3 \/ TreeSizeExceeds(HandFactorial, Seated, 2000)))

\* three players with a tree of 6 ^ 3 = 216: not pruned
C21_Witness ==
    /\ prune_output.err = "ok"
    /\ prune_output.called
    /\ Seated = 3
    /\ Len(PlayerState_hand(solve_input)) = 3
    /\ ~prune_output.prune_my_bad_picks

----------------------------------------------------------------------------
(* Properties of the pruning of get_all_picks (specification Spec) *)

\* card is a Nigiri (a Maki) and cards holds a Nigiri (a Maki) worth more
Dominated(card, cards) ==
    \/ is_nigiri(card) /\ \E c \in Range(cards) :
                            is_nigiri(c) /\ nigiri_base_points(c) > nigiri_base_points(card)
    \/ is_maki(card) /\ \E c \in Range(cards) : is_maki(c) /\ num_maki(c) > num_maki(card)

\* cards without one copy of card
WithoutOne(cards, card) ==
    LET k == CHOOSE i \in DOMAIN cards : cards[i] = card
    IN  [j \in 1..(Len(cards) - 1) |-> IF j < k THEN cards[j] ELSE cards[j + 1]]

\* C25: with pruning, get_all_picks returns no Pick of one Nigiri (Maki) while a
\* Nigiri (Maki) worth more is in the hand, and the cards of every Pick of two can
\* be put in an order in which the first is not dominated in the hand and the second
\* is not dominated in the hand without one copy of the first.
C25_NoDominatedPick ==
    (Returned /\ options.err = "ok" /\ prune_likely_bad_picks) =>
        \A pick \in options.picks :
            /\ Len(pick) = 1 => ~Dominated(pick[1], hand)
            /\ Len(pick) = 2 =>
                  \E order \in {<<pick[1], pick[2]>>, <<pick[2], pick[1]>>} :
                      /\ ~Dominated(order[1], hand)
                      /\ ~Dominated(order[2], WithoutOne(hand, order[1]))

\* a hand of three Nigiri with Chopsticks on the plate: the Squid alone, or the
\* Squid with the Salmon, never the Egg
C25_Witness ==
    /\ Returned
    /\ prune_likely_bad_picks
    /\ plate.chopsticks = 1
    /\ plate.unused_wasabi = 1
    /\ hand = <<EggNigiri, SquidNigiri, SalmonNigiri>>
    /\ options.picks = {<<SquidNigiri>>, <<SquidNigiri, SalmonNigiri>>,
                        <<SalmonNigiri, SquidNigiri>>}

\* C26 as stated: with pruning, the Pick of one Chopsticks is not returned when
\* len(hand) - 2 does not exceed the Chopsticks on the plate, unless the hand holds
\* nothing but Chopsticks.
C26_NoUselessChopsticks ==
    (/\ Returned
     /\ options.err = "ok"
     /\ prune_likely_bad_picks
     /\ Len(hand) - 2 <= plate.chopsticks
     /\ Range(hand) # {Chopsticks}) =>
        Pick1(Chopsticks) \notin options.picks


----------------------------------------------------------------------------
(* Properties of the nodes of the search (specification SpecWalk) *)

\* the size of the hands at the root
RootHandSize == Len(walk_root.state.hands[1])

\* some seat has played two cards on the way to the node
TwoCardPickPlayed ==
    \E t \in DOMAIN walk_picks : \E i \in DOMAIN walk_picks[t] : Len(walk_picks[t][i]) = 2

\* C22: from a root whose hands have the same size, every copy_with_played_cards
\* with picks of get_all_picks succeeds and leaves every seat one card less, so at
\* every node all hands have the size of the root's less the number of transitions,
\* and play_last_cards_and_score, reached past the depth assertion when the acting
\* hand holds one card, finds one card in every hand: it does not fail.
C22_HandsShrinkTogether ==
    walk_state # NoState =>
        /\ walk_state.err = "ok"
        /\ \A i \in DOMAIN walk_state.state.hands :
              Len(walk_state.state.hands[i]) = RootHandSize - Len(walk_picks)
        /\ (/\ walk_result # NoState
            /\ walk_state.recursion_depth < MaxRecursionDepth
            /\ Len(walk_state.state.hands[1]) = 1) =>
              walk_result.err = "ok"

\* a leaf scored after some seat has played two cards on the way
C22_Witness ==
    /\ walk_result # NoState
    /\ walk_result.err = "ok"
    /\ TwoCardPickPlayed
    /\ \A i \in DOMAIN walk_state.state.hands : Len(walk_state.state.hands[i]) = 1

\* the outermost call with a single candidate
WalkSingleRootOption ==
    /\ walk_state.recursion_depth = 0
    /\ Cardinality({picks[1] : picks \in WalkChoices(walk_root.state,
                                                        walk_root.prune_my_bad_picks)}) = 1

\* the depth of a node is the size of the root's hands less the size of its own, at
\* most one less than the size of the root's hands, and below the limit of the
\* assertion
DepthFollowsHandSize ==
    (walk_state # NoState /\ walk_state.err = "ok") =>
        /\ walk_state.recursion_depth = RootHandSize - Len(walk_state.state.hands[1])
        /\ walk_state.recursion_depth <= RootHandSize - 1
        /\ walk_state.recursion_depth < 10

\* C23 as stated: from a root with hands of 2 to 10 cards the depth of every node
\* follows the hand size, the depth assertion holds, and _solve_recursive returns
\* a Pick and a Result.
C23_AlwaysPickAndResult ==
    (walk_root # NoState /\ RootHandSize >= 2 /\ RootHandSize <= 10) =>
        /\ DepthFollowsHandSize
        /\ walk_result # NoState =>
              /\ walk_result.err = "ok"
              /\ walk_result.pick # NoPick
              /\ walk_result.result # NoResult

\* C23: as above, but the outermost call with a single candidate returns the Pick
\* with no Result.
C23_PickAndResultBelowRoot ==
    (walk_root # NoState /\ RootHandSize >= 2 /\ RootHandSize <= 10) =>
        /\ DepthFollowsHandSize
        /\ walk_result # NoState =>
              /\ walk_result.err = "ok"
              /\ walk_result.pick # NoPick
              /\ walk_result.result = NoResult <=> WalkSingleRootOption

\* the leaf nine transitions below a root with hands of ten cards
C23_Witness ==
    /\ walk_result # NoState
    /\ walk_result.err = "ok"
    /\ RootHandSize = 10
    /\ walk_state.recursion_depth = 9
    /\ Len(walk_state.state.hands[1]) = 1

\* the seat that holds, after t transitions, the hand that started at seat i of n
SeatAfter(i, t, n) == ((i - 1 + t) % n) + 1

\* the Pick played at transition u from the hand that started at seat i
PickedFrom(i, u) == walk_picks[u][SeatAfter(i, u - 1, Len(walk_picks[u]))]

\* the number of cards c in the hand that started at seat i, after the picks played
\* from it: one Chopsticks comes back for every Pick of two cards
CountLeft(i, c) ==
    count_card(walk_root.state.hands[i], c)
    - SeqSum([u \in DOMAIN walk_picks |-> count_card(PickedFrom(i, u), c)])
    + (IF c = Chopsticks
       THEN Cardinality({u \in DOMAIN walk_picks : Len(PickedFrom(i, u)) = 2})
       ELSE 0)

\* the plate that started as plt, with the cards seat i played at the transitions from
\* the u-th on
RECURSIVE PlateAfter(_, _, _)
PlateAfter(plt, i, u) ==
    IF u > Len(walk_picks) THEN plt
    ELSE PlateAfter(IF Len(walk_picks[u][i]) = 2
                    THEN Plate_add(Plate_add(plt, walk_picks[u][i][1]), walk_picks[u][i][2])
                    ELSE Plate_add(plt, walk_picks[u][i][1]),
                    i, u + 1)

\* the same turns played by the players and told to the PlayerState of the root by
\* play_turn and pass_hands, from the u-th on: [err, player_state, hands]
RECURSIVE TurnsPassed(_, _, _)
TurnsPassed(self, hands, u) ==
    IF u > Len(walk_picks) THEN [err |-> "ok", player_state |-> self, hands |-> hands]
    ELSE LET passed(r) ==
                 IF r.err # "ok" THEN r ELSE TurnsPassed(r.player_state, r.hands, u + 1)
             played(r) ==
                 IF r.err # "ok" THEN r ELSE passed(TurnPassed(r.player_state, r.hands))
         IN  played(TurnPlayed(self, hands, walk_picks[u]))

\* a node above the leaves, reached without error
InnerNode == walk_state # NoState /\ walk_state.err = "ok" /\ walk_result = NoState

\* C24: after every copy_with_played_cards the hand that was at seat i is at the
\* next seat, less the cards picked from it and with one Chopsticks more for a Pick
\* of two cards; plates, total scores and pudding counts stay at their seats; after
\* as many transitions as there are seats every hand is back at the seat it started
\* from; and PlayerState.pass_hands moves the hands to the same seats.
C24_HandsMoveToNextSeat ==
    InnerNode =>
        LET seats == DOMAIN walk_root.state.hands
            n == Len(walk_root.state.hands)
            t == Len(walk_picks)
            same_seats(told) ==
                told.err = "ok" =>
                    /\ told.player_state.hands = walk_state.state.hands
                    /\ told.hands = walk_state.state.hands
        IN  /\ \A i \in seats : \A c \in Cards :
                  count_card(walk_state.state.hands[SeatAfter(i, t, n)], c) = CountLeft(i, c)
            /\ t % n = 0 =>
                  \A i \in seats : \A c \in Cards :
                      count_card(walk_state.state.hands[i], c) = CountLeft(i, c)
            /\ \A i \in seats :
                  /\ walk_state.state.plates[i] = PlateAfter(walk_root.state.plates[i], i, 1)
                  /\ walk_state.state.total_scores[i] = walk_root.state.total_scores[i]
                  /\ walk_state.state.num_puddings[i]
                        = walk_root.state.num_puddings[i]
                            + SeqSum([u \in DOMAIN walk_picks |->
                                         count_card(walk_picks[u][i], Pudding)])
            /\ same_seats(TurnsPassed(solve_input, solve_input.hands, 1))

\* as many transitions as there are seats, one of them with a Pick of two cards, the
\* same turns told to the PlayerState without error
C24_Witness ==
    /\ InnerNode
    /\ Len(walk_picks) = Len(walk_root.state.hands)
    /\ TwoCardPickPlayed
    /\ \E i \in DOMAIN walk_root.state.hands :
          walk_root.state.hands[i] # walk_root.state.hands[1]
    /\ TurnsPassed(solve_input, solve_input.hands, 1).err = "ok"


----------------------------------------------------------------------------
(* Properties of PlayerState (specification SpecPlayer) *)

\* the number of Card.Unknown over the hands the PlayerState tracks
NumUnknownTracked(player_state) ==
    SeqSum([i \in DOMAIN player_state.hands |-> count_card(player_state.hands[i], Unknown)])

\* init_round or pass_hands has just returned
RoundDealtOrHandsPassed == know_state # NoState /\ know_phase \in {"dealt", "passed"}

\* C30: after init_round, and after every pass_hands that follows a turn, the call
\* has not raised, num_unseen_dealt_cards is the number of Card.Unknown in the
\* tracked hands, any_unknown_cards holds exactly when some tracked hand contains
\* Card.Unknown, and no entry of deck_dist is negative.
C30_UnseenCountMatchesUnknowns ==
    RoundDealtOrHandsPassed =>
        /\ know_state.err = "ok"
        /\ know_state.player_state.num_unseen_dealt_cards
              = NumUnknownTracked(know_state.player_state)
        /\ any_unknown_cards(know_state.player_state)
              <=> \E i \in DOMAIN know_state.player_state.hands :
                     Unknown \in Range(know_state.player_state.hands[i])
        /\ \A c \in Cards : know_state.player_state.deck_dist[c] >= 0

\* hands passed with a hand still unseen, after a player whose hand is unseen has
\* played two cards and taken the Chopsticks back
C30_Witness ==
    /\ know_state # NoState
    /\ know_phase = "passed"
    /\ know_state.err = "ok"
    /\ know_state.player_state.num_unseen_dealt_cards > 0
    /\ \E i \in DOMAIN know_state.player_state.hands :
          /\ Unknown \in Range(know_state.player_state.hands[i])
          /\ Chopsticks \in Range(know_state.player_state.hands[i])

----------------------------------------------------------------------------
(* Properties of Plate (specification SpecPlate) *)

\* C28: after every sequence of Picks played through Plate.play on an empty Plate, a
\* Pick of two cards only with Chopsticks on the Plate, no call has raised,
\* Plate.score is score_plate_besides_maki_pudding of the cards played, in order,
\* Plate.maki is count_maki of them, and _check_plate passes.
C28_PlateMatchesBatchScore ==
    check_plate # NoState =>
        /\ check_plate.err = "ok"
        /\ check_plate.plate.score = score_plate_besides_maki_pudding(CardsPlayed(check_history))
        /\ check_plate.plate.maki = count_maki(CardsPlayed(check_history))
        /\ _check_plate(check_history, check_plate.plate) = "ok"

\* Chopsticks, then a Wasabi and the Squid Nigiri it triples with the Chopsticks, then
\* an Egg Nigiri with no Wasabi left
C28_Witness ==
    /\ check_history = <<<<Chopsticks>>, <<Wasabi, SquidNigiri>>, <<EggNigiri>>>>
    /\ check_plate.err = "ok"
    /\ check_plate.plate.score = 10
    /\ check_plate.plate.chopsticks = 0

----------------------------------------------------------------------------
(* Properties of end_of_round_score_puddings (specification SpecExpect) *)

\* C29 as stated: with two players no entry of end_of_round_score_puddings is
\* negative, whatever the pudding counts and the Pudding still expected.
C29_NoPenaltyForTwoPlayers ==
    (expect_output.err = "ok" /\ Len(expect_input.num_puddings) = 2) =>
        \A i \in DOMAIN expect_output.scores : expect_output.scores[i] >= 0

----------------------------------------------------------------------------
(* Properties of Pick (specification SpecPick) *)

\* the pair is one Wasabi and one Nigiri
WasabiAndNigiri(a, b) == (a = Wasabi /\ is_nigiri(b)) \/ (b = Wasabi /\ is_nigiri(a))

\* the pair is two Nigiri of different kinds
TwoDistinctNigiri(a, b) == is_nigiri(a) /\ is_nigiri(b) /\ a # b

\* C27 as stated: Pick(a, b) and Pick(b, a) compare unequal only when the plate has
\* no unused Wasabi and the pair is a Wasabi and a Nigiri, or the plate has exactly
\* one unused Wasabi and the pair is two distinct Nigiri; in every other case both
\* hold the cards in the same ascending order, compare equal and hash equal.
C27_CanonicalForThePlate ==
    pair_output # NoState =>
        LET order_counts ==
                \/ pair_input.num_unused_wasabi = 0 /\ WasabiAndNigiri(pair_input.a, pair_input.b)
                \/ pair_input.num_unused_wasabi = 1 /\ TwoDistinctNigiri(pair_input.a, pair_input.b)
        IN  /\ ~pair_output.eq => order_counts
            /\ ~order_counts =>
                  /\ pair_output.ab = pair_output.ba
                  /\ pair_output.ab[1] <= pair_output.ab[2]
                  /\ pair_output.eq
                  /\ pair_output.hash_eq

=============================================================================
